---- MODULE Spec2Model ----
(***************************************************************************)
(* State-machine model of Misskey-post-Viewer.                             *)
(*                                                                         *)
(*   SpecCache   : the emoji asset cache (src/src/emoji.rs)                *)
(*   SpecNorm    : the normaliser of one frame: body selection,            *)
(*                 truncation, emoji references (src/src/main.rs 704-904)  *)
(*   Spec        : the connection supervisor, the per-account loops and    *)
(*                 the protocol client (src/src/main.rs 625-944,           *)
(*                 src/src/lib.rs)                                         *)
(*   SpecLoop    : one account loop with the writer and heartbeat tasks of *)
(*                 its clients; SpecLoopFair adds the timer of its sleep   *)
(*   SpecBackoff : one account loop whose every connect fails              *)
(*   SpecPreview : the link-preview image cache (src/src/main.rs 28-132)   *)
(*   SpecSettings: the account form and the MiAuth poll of the settings    *)
(*                 window (src/src/main.rs 332-562)                        *)
(*   SpecToken   : the token fields of one Account (src/src/config.rs)     *)
(*                                                                         *)
(* The specifications share one set of variables; the variables a          *)
(* specification does not use stay at their initial value.                 *)
(***************************************************************************)
EXTENDS Integers, Sequences, FiniteSets, TLC

VARIABLES
    \* ---- EmojiCache (emoji.rs 18-24) ----
    static_cache,      \* HashMap<String, Option<TextureHandle>> : url -> "None" | "Some"
    animated_cache,    \* HashMap<String, AnimatedEmoji>
    downloading,       \* HashMap<String, bool>
    rx,                \* the mpsc channel (tx, rx): queue of <<url, bytes>>
    threads,           \* url -> number of live download threads (std::thread::spawn)
    \* ---- observation of the cache (history, no effect on the program) ----
    miss_calls,        \* url -> load_emoji calls that missed both caches since the last drain of url
    miss_fetches,      \* url -> threads spawned by those calls
    failed,            \* urls whose last drained completion was a fetch or decode failure
    last_ret,          \* what the last load_emoji call did
    ticks,             \* number of update_animations calls so far
    last_drain,        \* the completions taken by the last process_downloads call
    \* ---- the normaliser of one note frame (main.rs 714-904) ----
    msg,               \* the frame being normalised (what next_message returned), or None
    emoji_api,         \* the shortcodes the server's /api/emoji answers with a url
    note_body,         \* the note of the frame being normalised (body.body), or None
    comment,           \* the Comment sent for it on tx_clone, or None
    requests,          \* the shortcodes looked up at /api/emoji for this frame, in order
    ogp,               \* how a fetch of the link preview for this frame ends
    \* ---- the connection supervisor (main.rs 625-944) ----
    reconnect_rx,      \* unbounded channel of AppConfig (reconnect_tx, reconnect_rx)
    current_config,    \* the supervisor's current_config
    should_start,      \* the supervisor's should_start
    account_handles,   \* Vec<JoinHandle<()>>: ids of the tasks the supervisor holds
    is_connected,      \* Arc<Mutex<bool>>
    sup_pc,            \* where the supervisor is in its loop
    tasks,             \* every per-account task spawned so far (id = index)
    clients,           \* every MisskeyClient created so far (id = index)
    tx,                \* the output channel of Comments (tx, rx of main.rs 625)
    sent,              \* number of configurations sent on reconnect_tx (history)
    reconnect_tx,      \* every configuration sent, with the number then waiting (history)
    \* ---- PreviewImageCache (main.rs 28-33) ----
    preview_cache,        \* cache: HashMap<String, Option<TextureHandle>>
    preview_downloading,  \* downloading: the urls that are keys of the map
    preview_rx,           \* the mpsc channel (tx, rx): queue of urls with their decoded image
    preview_threads,      \* the urls whose download thread is running
    preview_failed,       \* urls whose thread ended in a failure (history)
    preview_drained,      \* the failed urls of the last process_downloads call (history)
    preview_ret,          \* what the last load_image call returned
    \* ---- SettingsWindow and the accounts it edits (main.rs 175-199) ----
    config_accounts,         \* config.accounts: the host and the token of each account
    selected_account_index,  \* Option<usize>
    pending_miauth,          \* Option<(account_index, host, session)>
    edit_account_name,       \* the text fields of the form "new account"
    edit_account_host,
    edit_account_token,
    \* ---- one Account of the configuration file (config.rs 68-84) ----
    account,                 \* its fields token, token_raw and token_obfuscated
    token_op                 \* the last call on it and the account before the call (history)

cacheVars == <<static_cache, animated_cache, downloading, rx, threads,
               miss_calls, miss_fetches, failed, last_ret, ticks, last_drain>>

normVars == <<msg, emoji_api, note_body, comment, requests, ogp>>

supVars == <<reconnect_rx, current_config, should_start, account_handles, is_connected,
             sup_pc, tasks, clients, tx, sent, reconnect_tx>>

previewVars == <<preview_cache, preview_downloading, preview_rx, preview_threads,
                 preview_failed, preview_drained, preview_ret>>

settingsVars == <<config_accounts, selected_account_index, pending_miauth,
                  edit_account_name, edit_account_host, edit_account_token>>

tokenVars == <<account, token_op>>

uiVars == <<settingsVars, tokenVars>>

vars == <<cacheVars, normVars, supVars, previewVars, uiVars>>

-----------------------------------------------------------------------------
(* Bounds of the model *)
MaxCalls  == 3      \* load_emoji calls per url and request window
MaxTicks  == 2      \* update_animations calls
MaxQueue  == 2      \* completions waiting in the channel

MaxTextLen == 104   \* longest text / cw of a generated note
MaxReconfigs == 2   \* configurations sent on reconnect_tx
MaxClients == 2     \* successful connects in one run
MaxFailures == 5    \* consecutive connect failures of one task (one account alone)
MaxSupFailures == 1 \* the same, with several accounts under the supervisor
MaxOutbound == 2    \* messages waiting in a client's outbound queue
MaxRecords == 2     \* Comments waiting in the output channel (one account alone)
MaxSupRecords == 1  \* the same, with several accounts under the supervisor
MaxFrames == 2      \* note frames received by one task (one account alone)
MaxSupFrames == 1   \* the same, with several accounts under the supervisor
MaxDropped == 1     \* frames without a record received by one task
MaxBackoffFailures == 66 \* consecutive connect failures of the task of SpecBackoff
MaxAccounts == 2    \* accounts in the list of the settings window

(* Program constants *)
MinFrameMs == 10    \* emoji.rs 171: duration_ms.max(10)
TextLimit == 100    \* main.rs 868: text_content.chars().count() > 100
RenoteLimit == 80   \* main.rs 842: orig_text_raw.chars().count() > 80
BackoffCap == 5     \* main.rs 927: min(.., 5)
SubscribeSleep == 2 \* main.rs 697: sleep 2 s after a failed subscribe
U64Bits == 64       \* main.rs 927: 2u64.pow(..)

-----------------------------------------------------------------------------
(* Small helpers over maps (HashMap as a function on its key set) *)
\* An insert that leaves no other key in the map.
InsertAlone(m, k, v) == (k :> v)

Insert(m, k, v) == (k :> v) @@ m
Remove(m, k) == [x \in (DOMAIN m) \ {k} |-> m[x]]
Max(a, b) == IF a >= b THEN a ELSE b
Min(a, b) == IF a <= b THEN a ELSE b

-----------------------------------------------------------------------------
(* ------------------------- inputs of the cache ------------------------- *)

\* A url is its stem and its extension; ends_with(".gif") looks at the extension.
Urls == { [stem |-> "a", ext |-> ".gif"], [stem |-> "b", ext |-> ".png"] }

ends_with_gif(url) == url.ext = ".gif"

\* image::Delay as the (numerator, denominator) pair of numer_denom_ms().
Zero == <<0, 1>>         \* a GIF frame with delay 0
Third == <<25, 3>>       \* 8.33 ms
Hundred == <<100, 1>>

\* The frame delays of the animated byte streams the model downloads.
Example3 == << <<100, 1>>, <<150, 1>>, <<200, 1>> >>
DelayLists == { <<>>, <<Zero>>, <<Third, Hundred>>, <<Hundred, Zero>>, Example3 }

\* Downloaded byte streams, by what the image decoders make of them.
\*   empty   : Vec::new()
\*   gif     : a GIF stream with the given frame delays (possibly no frame)
\*   apng    : a PNG stream with an acTL chunk and the given frame delays
\*   png     : a static PNG
\*   image   : another static raster format (JPEG, WebP, ...)
\*   badpng  : the PNG signature followed by a corrupt stream
\*   garbage : bytes no decoder accepts
Bytes ==
    { [kind |-> "empty", delays |-> <<>>] }
    \cup { [kind |-> "gif", delays |-> d] : d \in DelayLists }
    \cup { [kind |-> "apng", delays |-> d] : d \in DelayLists \ { <<>> } }
    \cup { [kind |-> k, delays |-> <<>>] : k \in {"png", "image", "badpng", "garbage"} }

EmptyBytes == [kind |-> "empty", delays |-> <<>>]

\* bytes.len() > 8 && &bytes[0..8] == b"\x89PNG\r\n\x1a\n"
has_png_signature(bytes) == bytes.kind \in {"apng", "png", "badpng"}

\* (delay.numer_denom_ms().0 as f32 / delay.numer_denom_ms().1 as f32) as u32
duration_ms(delay) == delay[1] \div delay[2]

\* GifDecoder::new(..)?.into_frames().collect_frames()? : Ok(frames) | Err
gif_decoder(bytes) ==
    IF bytes.kind = "gif" THEN [ok |-> TRUE, frames |-> bytes.delays]
    ELSE [ok |-> FALSE, frames |-> <<>>]

\* PngDecoder::new(..)?, is_apng()?, apng()?.into_frames().collect_frames()?
apng_decoder(bytes) ==
    IF bytes.kind = "apng" THEN [ok |-> TRUE, frames |-> bytes.delays]
    ELSE [ok |-> FALSE, frames |-> <<>>]

\* image::load_from_memory(&bytes).is_ok()
load_from_memory_ok(bytes) == bytes.kind \in {"gif", "apng", "png", "image"}

-----------------------------------------------------------------------------
(* ----------------------------- EmojiCache ------------------------------ *)

AnimatedEmoji(durations, ntextures) ==
    [frame_durations |-> durations, textures |-> ntextures,
     current_frame |-> 0, elapsed_ms |-> 0]

\* emoji.rs 117-120: the GIF path pushes the converted delay as it is.
gif_frame_durations(frames) == [i \in 1..Len(frames) |-> duration_ms(frames[i])]

\* emoji.rs 168-171: the APNG path pushes duration_ms.max(10).
apng_frame_durations(frames) ==
    [i \in 1..Len(frames) |-> Max(duration_ms(frames[i]), MinFrameMs)]

\* The caches as one value, so that the decode helpers can be folded over the queue.
CacheState(sc, ac, dl) == [static_cache |-> sc, animated_cache |-> ac, downloading |-> dl]

\* load_gif_frames: Err on a decoder error, else Ok; inserts into animated_cache
\* only when at least one texture was produced.
load_gif_frames(st, url, bytes) ==
    LET dec == gif_decoder(bytes)
        durations == gif_frame_durations(dec.frames)
    IN  IF ~dec.ok THEN [ok |-> FALSE, st |-> st]
        ELSE IF Len(dec.frames) # 0
             THEN [ok |-> TRUE,
                   st |-> [st EXCEPT !.animated_cache =
                              Insert(@, url, AnimatedEmoji(durations, Len(dec.frames)))]]
             ELSE [ok |-> TRUE, st |-> st]

\* load_apng_frames: same shape, with the 10 ms floor on every duration.
load_apng_frames(st, url, bytes) ==
    LET dec == apng_decoder(bytes)
        durations == apng_frame_durations(dec.frames)
    IN  IF ~dec.ok THEN [ok |-> FALSE, st |-> st]
        ELSE IF Len(dec.frames) # 0
             THEN [ok |-> TRUE,
                   st |-> [st EXCEPT !.animated_cache =
                              Insert(@, url, AnimatedEmoji(durations, Len(dec.frames)))]]
             ELSE [ok |-> TRUE, st |-> st]

\* load_static that forgets the negative entry when the decode fails.
load_static_no_negative(st, url, bytes) ==
    IF load_from_memory_ok(bytes)
    THEN [st EXCEPT !.static_cache = Insert(@, url, "Some")]
    ELSE st

\* The static tail of process_downloads (emoji.rs 256-277).
load_static(st, url, bytes) ==
    IF load_from_memory_ok(bytes)
    THEN [st EXCEPT !.static_cache = Insert(@, url, "Some")]
    ELSE [st EXCEPT !.static_cache = Insert(@, url, "None")]

\* One iteration that leaves the url marked as downloading.
process_one_keeps_mark(st, url, bytes) ==
    IF bytes = EmptyBytes
    THEN [st EXCEPT !.static_cache = Insert(@, url, "None")]
    ELSE IF ends_with_gif(url)
    THEN LET r == load_gif_frames(st, url, bytes)
         IN  IF r.ok THEN r.st
             ELSE [st EXCEPT !.static_cache = Insert(@, url, "None")]
    ELSE IF has_png_signature(bytes)
    THEN LET r == load_apng_frames(st, url, bytes)
         IN  IF r.ok THEN r.st ELSE load_static(st, url, bytes)
    ELSE load_static(st, url, bytes)

\* The dispatch with the test of the PNG signature ahead of the test of the extension.
process_one_png_first(st0, url, bytes) ==
    LET st == [st0 EXCEPT !.downloading = Remove(@, url)]
    IN  IF bytes = EmptyBytes
        THEN [st EXCEPT !.static_cache = Insert(@, url, "None")]
        ELSE IF has_png_signature(bytes)
        THEN LET r == load_apng_frames(st, url, bytes)
             IN  IF r.ok THEN r.st ELSE load_static(st, url, bytes)
        ELSE IF ends_with_gif(url)
        THEN LET r == load_gif_frames(st, url, bytes)
             IN  IF r.ok THEN r.st
                 ELSE [st EXCEPT !.static_cache = Insert(@, url, "None")]
        ELSE load_static(st, url, bytes)

\* One iteration of the while-let loop of process_downloads (emoji.rs 214-278).
process_one(st0, url, bytes) ==
    LET st == [st0 EXCEPT !.downloading = Remove(@, url)]
    IN  IF bytes = EmptyBytes
        THEN [st EXCEPT !.static_cache = Insert(@, url, "None")]
        ELSE IF ends_with_gif(url)
        THEN LET r == load_gif_frames(st, url, bytes)
             IN  IF r.ok THEN r.st
                 ELSE [st EXCEPT !.static_cache = Insert(@, url, "None")]
        ELSE IF has_png_signature(bytes)
        THEN LET r == load_apng_frames(st, url, bytes)
             IN  IF r.ok THEN r.st ELSE load_static(st, url, bytes)
        ELSE load_static(st, url, bytes)

RECURSIVE drain(_, _)
drain(st, msgs) ==
    IF msgs = <<>> THEN st
    ELSE drain(process_one(st, Head(msgs)[1], Head(msgs)[2]), Tail(msgs))

\* What counts as a failure of one download, stated apart from the dispatch:
\* the fetch thread reported failure (empty bytes), or no decoder that applies
\* to this url accepts the bytes.
IsFailure(url, bytes) ==
    \/ bytes = EmptyBytes
    \/ ends_with_gif(url) /\ ~gif_decoder(bytes).ok
    \/ ~ends_with_gif(url) /\ ~apng_decoder(bytes).ok /\ ~load_from_memory_ok(bytes)

RECURSIVE failed_after(_, _)
failed_after(f, msgs) ==
    IF msgs = <<>> THEN f
    ELSE LET u == Head(msgs)[1]
             b == Head(msgs)[2]
         IN  failed_after(IF IsFailure(u, b) THEN f \cup {u} ELSE f \ {u}, Tail(msgs))

Drained(msgs) == { msgs[i][1] : i \in 1..Len(msgs) }

\* EmojiCache::process_downloads: drains every completion that is in the channel.
process_downloads ==
    /\ rx # <<>>
    /\ LET st == drain(CacheState(static_cache, animated_cache, downloading), rx)
       IN  /\ static_cache' = st.static_cache
           /\ animated_cache' = st.animated_cache
           /\ downloading' = st.downloading
    /\ rx' = <<>>
    /\ failed' = failed_after(failed, rx)
    /\ miss_calls' = [u \in Urls |-> IF u \in Drained(rx) THEN 0 ELSE miss_calls[u]]
    /\ miss_fetches' = [u \in Urls |-> IF u \in Drained(rx) THEN 0 ELSE miss_fetches[u]]
    /\ last_drain' = rx
    /\ UNCHANGED <<uiVars, previewVars, threads, last_ret, ticks, normVars, supVars>>

\* The first texture, whatever the cursor.
first_texture(anim) == 0

\* emoji.rs 42: anim.textures[anim.current_frame], as the index of the texture.
current_texture(anim) == anim.current_frame

\* No texture is returned.
NoFrame == -1

\* load_emoji without the check of the downloading map.
load_emoji_result_unchecked(url) ==
    IF url \in DOMAIN animated_cache
    THEN [ret |-> "Some", spawn |-> FALSE, frame |-> current_texture(animated_cache[url])]
    ELSE IF url \in DOMAIN static_cache
    THEN [ret |-> static_cache[url], spawn |-> FALSE, frame |-> NoFrame]
    ELSE [ret |-> "None", spawn |-> TRUE, frame |-> NoFrame]

\* The decision of load_emoji (emoji.rs 38-57): what it returns and whether it
\* starts a download.
load_emoji_result(url) ==
    IF url \in DOMAIN animated_cache
    THEN [ret |-> "Some", spawn |-> FALSE, frame |-> current_texture(animated_cache[url])]
    ELSE IF url \in DOMAIN static_cache
    THEN [ret |-> static_cache[url], spawn |-> FALSE, frame |-> NoFrame]
    ELSE IF url \in DOMAIN downloading
    THEN [ret |-> "None", spawn |-> FALSE, frame |-> NoFrame]
    ELSE [ret |-> "None", spawn |-> TRUE, frame |-> NoFrame]

\* EmojiCache::load_emoji
load_emoji(url) ==
    LET r == load_emoji_result(url)
        miss == url \notin DOMAIN animated_cache /\ url \notin DOMAIN static_cache
    IN  /\ miss_calls[url] < MaxCalls
        /\ downloading' = IF r.spawn THEN Insert(downloading, url, TRUE) ELSE downloading
        /\ threads' = IF r.spawn THEN [threads EXCEPT ![url] = @ + 1] ELSE threads
        /\ miss_calls' = [miss_calls EXCEPT ![url] = IF miss THEN @ + 1 ELSE @]
        /\ miss_fetches' = [miss_fetches EXCEPT ![url] = IF r.spawn THEN @ + 1 ELSE @]
        /\ last_ret' = [url |-> url, ret |-> r.ret, spawn |-> r.spawn,
                        known_failed |-> url \in failed, frame |-> r.frame]
        /\ UNCHANGED <<uiVars, previewVars, static_cache, animated_cache, rx, failed, ticks, last_drain,
                       normVars, supVars>>

\* The download thread (emoji.rs 62-100): exactly one send on every path.
\* A failure of Client::builder, send, the status or bytes() sends Vec::new().
FetchOutcomes == {"client_err", "send_err", "http_status", "body_err", "ok"}

\* A download thread that reports only a success.
download_thread_silent_on_error(url, outcome, body) ==
    /\ threads[url] > 0
    /\ Len(rx) < MaxQueue
    /\ rx' = IF outcome = "ok" THEN Append(rx, <<url, body>>) ELSE rx
    /\ threads' = [threads EXCEPT ![url] = @ - 1]
    /\ UNCHANGED <<uiVars, previewVars, static_cache, animated_cache, downloading,
                   miss_calls, miss_fetches, failed, last_ret, ticks, last_drain,
                   normVars, supVars>>

\* emoji.rs 60-101: the spawned thread, from the spawn to its single send.
download_thread(url, outcome, body) ==
    /\ threads[url] > 0
    /\ Len(rx) < MaxQueue
    /\ rx' = Append(rx, <<url, IF outcome = "ok" THEN body ELSE EmptyBytes>>)
    /\ threads' = [threads EXCEPT ![url] = @ - 1]
    /\ UNCHANGED <<uiVars, previewVars, static_cache, animated_cache, downloading,
                   miss_calls, miss_fetches, failed, last_ret, ticks, last_drain,
                   normVars, supVars>>

\* One entry's step with a cursor that is not wrapped.
advance_no_wrap(anim, dt_ms) ==
    LET e == anim.elapsed_ms + dt_ms
    IN  IF anim.current_frame < Len(anim.frame_durations)
        THEN LET current_duration == anim.frame_durations[anim.current_frame + 1]
             IN  IF e >= current_duration
                 THEN [anim EXCEPT !.elapsed_ms = e - current_duration,
                                   !.current_frame = anim.current_frame + 1]
                 ELSE [anim EXCEPT !.elapsed_ms = e]
        ELSE [anim EXCEPT !.elapsed_ms = e]

\* One entry's step of update_animations (emoji.rs 201-209).
advance(anim, dt_ms) ==
    LET e == anim.elapsed_ms + dt_ms
    IN  IF anim.current_frame < Len(anim.frame_durations)
        THEN LET current_duration == anim.frame_durations[anim.current_frame + 1]
             IN  IF e >= current_duration
                 THEN [anim EXCEPT !.elapsed_ms = e - current_duration,
                                   !.current_frame = (anim.current_frame + 1) % anim.textures]
                 ELSE [anim EXCEPT !.elapsed_ms = e]
        ELSE [anim EXCEPT !.elapsed_ms = e]

\* Frame deltas handed to update_animations (main.rs 1005-1009).
DeltaMs == {16, 260}

\* EmojiCache::update_animations
update_animations(dt_ms) ==
    /\ ticks < MaxTicks
    /\ animated_cache # <<>>
    /\ animated_cache' = [u \in DOMAIN animated_cache |-> advance(animated_cache[u], dt_ms)]
    /\ ticks' = ticks + 1
    /\ UNCHANGED <<uiVars, previewVars, static_cache, downloading, rx, threads, miss_calls, miss_fetches,
                   failed, last_ret, last_drain, normVars, supVars>>


-----------------------------------------------------------------------------
(* --------------------- the normaliser: body text ----------------------- *)

\* Option<T>: None, or Some(v). An absent (or non-string) JSON field is None.
None == [some |-> FALSE]
Some(v) == [some |-> TRUE, v |-> v]

\* A string is its sequence of Unicode scalars (what chars() iterates).
Narrow == <<"a", "b", "c">>
Wide == <<"U+3042", "U+3044", "U+3046">>     \* hiragana a, i, u: three bytes each in UTF-8
utf8_len(ch) == IF \E i \in 1..3 : Wide[i] = ch THEN 3 ELSE 1

\* str.len(): one byte for each character and two more for each wide one.
byte_len(str) == Len(str) + 2 * Cardinality({ i \in DOMAIN str : utf8_len(str[i]) = 3 })

Str(alphabet, n) == [i \in 1..n |-> alphabet[(i % 3) + 1]]

\* Lengths around the two limits (and around them less the 4 characters of "CW: ").
TextLens == {0, RenoteLimit - 4, RenoteLimit - 3, RenoteLimit, RenoteLimit + 1, 90,
             TextLimit - 4, TextLimit - 3, TextLimit, TextLimit + 1, MaxTextLen}
\* Wide strings: below a limit in characters and above it in bytes, and above both.
WideLens == {27, 34, 90, TextLimit + 1}
Strings == { Str(Narrow, n) : n \in { m \in TextLens : m <= MaxTextLen } }
           \cup { Str(Wide, n) : n \in WideLens }
OptString == { Some(str) : str \in Strings } \cup {None}

CwPrefix == <<"C", "W", ":", " ">>           \* "CW: "
Ellipsis == <<".", ".", ".">>                \* "..."

\* str.chars().take(n).collect::<String>()
chars_take(str, n) == SubSeq(str, 1, Min(n, Len(str)))

\* Truncation by UTF-8 byte length instead of by character count.
truncate_by_bytes(str, limit) ==
    IF byte_len(str) > limit THEN chars_take(str, limit) \o Ellipsis ELSE str

\* main.rs 842-846 and 868-872:
\* if s.chars().count() > limit { format!("{}...", s.chars().take(limit)) } else { s }
truncate(str, limit) ==
    IF Len(str) > limit THEN chars_take(str, limit) \o Ellipsis ELSE str

\* obj.get("text").and_then(|v| v.as_str()).unwrap_or("").to_string()
text_or_empty(obj) == IF obj.text.some THEN obj.text.v ELSE <<>>

\* The choice with the text preferred to the CW.
text_or_cw(obj) ==
    IF obj.text.some THEN obj.text.v
    ELSE IF obj.cw.some /\ obj.cw.v # <<>> THEN CwPrefix \o obj.cw.v ELSE <<>>

\* main.rs 831-839 / 857-865: the CW, prefixed, when present and not empty; else
\* the text, or "" when the text is absent.
cw_or_text(obj) ==
    IF obj.cw.some
    THEN IF obj.cw.v # <<>> THEN CwPrefix \o obj.cw.v ELSE text_or_empty(obj)
    ELSE text_or_empty(obj)

\* main.rs 831-839
orig_text_raw(renote) == cw_or_text(renote)

\* The repost body cut at the limit of the displayed body.
orig_text_at_display_limit(renote) == truncate(orig_text_raw(renote), TextLimit)

\* main.rs 842-846
orig_text(renote) == truncate(orig_text_raw(renote), RenoteLimit)

\* main.rs 772-851 (the body part): Some((.., orig_text)) when a renote is present.
renote_info(note) ==
    IF note.renote.some THEN Some([orig_text |-> orig_text(note.renote.v)]) ELSE None

\* main.rs 854-865
text_content(note) ==
    IF renote_info(note).some THEN renote_info(note).v.orig_text ELSE cw_or_text(note)

\* main.rs 868-872
truncated_text(note) == truncate(text_content(note), TextLimit)

(* ------------------- the normaliser: emoji references ------------------ *)

\* The characters of the class [a-zA-Z0-9_] that occur in the model's strings.
WordChars == {"a", "b", "c", "d", "e", "g", "h", "i", "k", "l", "n", "o", "p", "r", "s",
              "t", "w", "x", "C", "W", "U", "_"}

is_word(str, p) == p >= 1 /\ p <= Len(str) /\ str[p] \in WordChars

\* The length of the longest run of word characters of str that starts at i.
word_run(str, i) ==
    CHOOSE n \in 0..Len(str) :
        /\ \A m \in 0..(n - 1) : is_word(str, i + m)
        /\ ~is_word(str, i + n)

\* Regex ":([a-zA-Z0-9_]+):" matches at i: a colon, a run of word characters
\* that is not empty, a colon. (The run cannot end earlier: a colon is no word
\* character.)
is_match(str, i) ==
    /\ str[i] = ":"
    /\ word_run(str, i + 1) >= 1
    /\ i + word_run(str, i + 1) + 1 <= Len(str)
    /\ str[i + word_run(str, i + 1) + 1] = ":"

\* main.rs 748-752: captures_iter yields the leftmost matches that do not
\* overlap: the search goes on behind the closing colon of a match.
RECURSIVE captures_from(_, _)
captures_from(str, i) ==
    LET later == { j \in i..Len(str) : is_match(str, j) }
    IN  IF later = {} THEN <<>>
        ELSE LET j == CHOOSE k \in later : \A l \in later : k <= l
                 n == word_run(str, j + 1)
             IN  << SubSeq(str, j + 1, j + n) >> \o captures_from(str, j + n + 2)

captures_iter(str) == captures_from(str, 1)

Unknown == <<"U", "n", "k", "n", "o", "w", "n">>

\* user.and_then(|u| u.get("name")).and_then(|v| v.as_str()).unwrap_or("Unknown")
name_or_unknown(obj) == IF obj.name.some THEN obj.name.v ELSE Unknown

\* A check that finds no name.
has_no_emoji(emojis, name) == FALSE

\* emojis.iter().any(|e| e.name == emoji_name)
has_emoji(emojis, name) == \E i \in 1..Len(emojis) : emojis[i].name = name

\* EmojiInfo { name, url }; the url is kept as the source it came from.
EmojiInfo(name, source) == [name |-> name, url |-> source]

\* main.rs 724-735: every entry of the note's "emojis" object.
RECURSIVE push_map(_, _)
push_map(emojis, map) ==
    IF map = <<>> THEN emojis
    ELSE push_map(Append(emojis, EmojiInfo(Head(map), "note")), Tail(map))

\* The entries of the renote's "emojis" object, held or not.
push_renote_map_unchecked(emojis, map) == emojis \o [i \in DOMAIN map |-> EmojiInfo(map[i], "renote")]

\* main.rs 779-792: the entries of the renote's "emojis" object not yet held.
RECURSIVE push_renote_map(_, _)
push_renote_map(emojis, map) ==
    IF map = <<>> THEN emojis
    ELSE push_renote_map(IF has_emoji(emojis, Head(map)) THEN emojis
                         ELSE Append(emojis, EmojiInfo(Head(map), "renote")),
                         Tail(map))

\* main.rs 754-769 and 813-828: for each captured shortcode not yet held, one
\* GET /api/emoji?name=..; the answer's url, when there is one, is pushed.
RECURSIVE lookup_loop(_, _, _, _)
lookup_loop(st, names, api, source) ==
    IF names = <<>> THEN st
    ELSE LET name == Head(names)
             next == IF has_emoji(st.emojis, name) THEN st
                     ELSE [emojis |-> IF name \in api
                                      THEN Append(st.emojis, EmojiInfo(name, source))
                                      ELSE st.emojis,
                           requests |-> Append(st.requests, name)]
         IN  lookup_loop(next, Tail(names), api, source)

\* main.rs 738-744: the note's text, a space, the author's name.
all_text(note) == text_or_empty(note) \o <<" ">> \o name_or_unknown(note)

\* main.rs 795-805: the renote's text, its CW after a space, a space, its author's name.
renote_text_for_emoji(renote) ==
    text_or_empty(renote) \o (IF renote.cw.some THEN <<" ">> \o renote.cw.v ELSE <<>>)
        \o <<" ">> \o name_or_unknown(renote)

map_or_empty(obj) == IF obj.emojis.some THEN obj.emojis.v ELSE <<>>

\* main.rs 721-828: the emoji references of the frame and the lookups made for them.
resolve_emojis(note, api) ==
    LET own == lookup_loop([emojis |-> push_map(<<>>, map_or_empty(note)), requests |-> <<>>],
                           captures_iter(all_text(note)), api, "api")
    IN  IF note.renote.some
        THEN LET renote == note.renote.v
             IN  lookup_loop([emojis |-> push_renote_map(own.emojis, map_or_empty(renote)),
                              requests |-> own.requests],
                             captures_iter(renote_text_for_emoji(renote)), api, "renote_api")
        ELSE own

(* ------------------------ the normaliser: link preview ----------------- *)

Http == <<"h", "t", "t", "p", ":", "/", "/">>
Https == <<"h", "t", "t", "p", "s", ":", "/", "/">>

starts_at(str, i, pat) ==
    i + Len(pat) - 1 <= Len(str) /\ SubSeq(str, i, i + Len(pat) - 1) = pat

\* \s, for the characters of the model's strings.
is_space(ch) == ch = " "

\* The length of what "https?://" matches at i, or 0.
scheme_len(str, i) ==
    IF starts_at(str, i, Https) THEN Len(Https)
    ELSE IF starts_at(str, i, Http) THEN Len(Http)
    ELSE 0

\* Regex "https?://[^\s]+" matches at i: the scheme and at least one
\* character that is no whitespace.
url_at(str, i) ==
    /\ scheme_len(str, i) > 0
    /\ i + scheme_len(str, i) <= Len(str)
    /\ ~is_space(str[i + scheme_len(str, i)])

\* The end of the match that starts at i: the run of non-whitespace goes on
\* as far as it can.
url_end(str, i) ==
    CHOOSE j \in i..Len(str) :
        /\ \A k \in i..j : ~is_space(str[k])
        /\ j = Len(str) \/ is_space(str[j + 1])

\* detect_url (main.rs 1611-1615): the leftmost match, or None.
detect_url(str) ==
    LET starts == { i \in DOMAIN str : url_at(str, i) }
    IN  IF starts = {} THEN None
        ELSE LET i == CHOOSE k \in starts : \A l \in starts : k <= l
             IN  Some(SubSeq(str, i, url_end(str, i)))

\* How fetch_ogp_metadata can end (main.rs 1618-1630): the client is not built;
\* the request fails (an url that does not parse, no connection, the 5 s
\* timeout); the body is not read; or a document is parsed.
OgpOutcomes == {"client_err", "send_err", "body_err", "ok"}

\* fetch_ogp_metadata (main.rs 1618-1736): every failure is `.ok()?`, that is
\* None; a parsed document always gives Some(UrlPreview { url, .. }).
fetch_ogp_metadata(url, outcome) == IF outcome = "ok" THEN Some([url |-> url]) ELSE None

\* main.rs 876-882
url_preview(note, outcome) ==
    LET url == detect_url(text_content(note))
    IN  IF url.some THEN fetch_ogp_metadata(url.v, outcome) ELSE None

\* A record that is sent only when the preview was fetched.
make_comment_or_fail(note, emojis, outcome) ==
    IF text_content(note) # <<>> \/ renote_info(note).some
    THEN IF detect_url(text_content(note)).some /\ ~url_preview(note, outcome).some
         THEN None
         ELSE Some([text |-> truncated_text(note), renote_info |-> renote_info(note),
                    emojis |-> emojis, url_preview |-> url_preview(note, outcome)])
    ELSE None

\* main.rs 874-903: the Comment sent, or nothing.
make_comment(note, emojis, outcome) ==
    IF text_content(note) # <<>> \/ renote_info(note).some
    THEN Some([text |-> truncated_text(note), renote_info |-> renote_info(note),
               emojis |-> emojis, url_preview |-> url_preview(note, outcome)])
    ELSE None

(* ------------------------ the normaliser: frames ----------------------- *)

\* Notes that vary the text, the CW and the renote's text and CW.
NoEmojis == [name |-> None, emojis |-> None]
BodyRenotes == { r @@ NoEmojis : r \in [text : OptString, cw : OptString] }
BodyNotes == { n @@ NoEmojis :
                 n \in [text : OptString, cw : OptString,
                        renote : { Some(r) : r \in BodyRenotes } \cup {None}] }

\* The note of the example: cw = "spoiler", text = "ignored"; and the same
\* note carrying a renote.
Spoiler == <<"s", "p", "o", "i", "l", "e", "r">>
Ignored == <<"i", "g", "n", "o", "r", "e", "d">>
ExampleNotes ==
    { [text |-> Some(Ignored), cw |-> Some(Spoiler), renote |-> rn, name |-> None,
       emojis |-> None] :
          rn \in {None, Some([text |-> Some(Str(Narrow, 3)), cw |-> None] @@ NoEmojis)} }

\* Notes that vary the shortcodes in the texts and names and the emoji maps.
ShortA == <<":", "a", ":">>
ShortB == <<":", "b", ":">>
ShortTexts == { ShortA, ShortA \o <<" ">> \o ShortA, ShortA \o <<"b", ":">>, ShortB }
EmojiMaps == { None, Some(<< <<"a">> >>) }
EmojiRenotes ==
    [text : {None, Some(ShortA), Some(ShortB)}, cw : {None, Some(ShortA)},
     name : {None, Some(ShortB)}, emojis : EmojiMaps]
EmojiNotes ==
    [text : {None} \cup { Some(t) : t \in ShortTexts }, cw : {None},
     renote : { Some(r) : r \in EmojiRenotes } \cup {None},
     name : {None, Some(ShortA)}, emojis : EmojiMaps]

\* Notes that carry a url in the text, in the CW or in the renote's text.
UrlA == Https \o <<"x">>
UrlTexts == { UrlA, <<"s", "e", "e", " ">> \o Http \o <<"x", " ">> \o UrlA,
             Https \o <<" ", "x">>, Http }
UrlNotes ==
    { n @@ NoEmojis :
        n \in [text : { Some(t) : t \in UrlTexts }, cw : {None, Some(UrlA)},
               renote : {None, Some([text |-> Some(UrlA), cw |-> None] @@ NoEmojis),
                         Some([text |-> None, cw |-> None] @@ NoEmojis)}] }

Notes == BodyNotes \cup ExampleNotes \cup EmojiNotes \cup UrlNotes

\* What the server resolves: nothing, or every shortcode, or one of the two.
Apis == SUBSET { <<"a">>, <<"b">> }

\* The frames next_message can return with Ok (main.rs 707-714): a message that
\* is not text, a text that is not JSON, JSON without "body", a body without
\* "type", a body of another type, a body of type "note" without "body".
EnvelopeOf(type, body) == [is_text |-> TRUE, parsed |-> Some([body |-> Some([type |-> type, body |-> body])])]
SomeNote == Some([text |-> Some(Str(Narrow, 3)), cw |-> None, renote |-> None] @@ NoEmojis)
OtherFrames ==
    { [is_text |-> FALSE, parsed |-> None],
      [is_text |-> TRUE, parsed |-> None],
      [is_text |-> TRUE, parsed |-> Some([body |-> None])],
      EnvelopeOf(None, SomeNote),
      EnvelopeOf(Some("notification"), SomeNote),
      EnvelopeOf(Some("note"), None) }
NoteFrame(note) == EnvelopeOf(Some("note"), Some(note))

\* The note of a frame whatever the type of its body.
note_of_any_type(frame) ==
    IF ~frame.is_text THEN None
    ELSE IF ~frame.parsed.some THEN None
    ELSE IF ~frame.parsed.v.body.some THEN None
    ELSE frame.parsed.v.body.v.body

\* main.rs 709-714: the note of a frame, when the frame has one.
note_of(frame) ==
    IF ~frame.is_text THEN None
    ELSE IF ~frame.parsed.some THEN None
    ELSE IF ~frame.parsed.v.body.some THEN None
    ELSE IF ~frame.parsed.v.body.v.type.some THEN None
    ELSE IF frame.parsed.v.body.v.type.v # "note" THEN None
    ELSE frame.parsed.v.body.v.body

\* One frame goes through the normaliser (main.rs 707-910).
process_frame(frame, api, outcome) ==
    /\ msg' = Some(frame)
    /\ emoji_api' = api
    /\ ogp' = outcome
    /\ note_body' = note_of(frame)
    /\ IF note_of(frame).some
       THEN LET resolved == resolve_emojis(note_of(frame).v, api)
            IN  /\ comment' = make_comment(note_of(frame).v, resolved.emojis, outcome)
                /\ requests' = resolved.requests
       ELSE /\ comment' = None
            /\ requests' = <<>>
    /\ UNCHANGED <<uiVars, previewVars, cacheVars, supVars>>

\* A frame of type "note" with a body.
normalize ==
    /\ ~msg.some
    /\ \/ \E note \in BodyNotes : process_frame(NoteFrame(note), {}, "ok")
       \/ \E note \in ExampleNotes : process_frame(NoteFrame(note), {}, "ok")

\* A note frame with an url, against how the fetch of its preview ends.
normalize_url ==
    /\ ~msg.some
    /\ \E note \in UrlNotes, outcome \in OgpOutcomes :
          process_frame(NoteFrame(note), {}, outcome)

\* A note frame with shortcodes, against what the server resolves.
normalize_emojis ==
    /\ ~msg.some
    /\ \E note \in EmojiNotes, api \in Apis : process_frame(NoteFrame(note), api, "ok")

\* Any other frame.
discard ==
    /\ ~msg.some
    /\ \E frame \in OtherFrames : process_frame(frame, {}, "ok")

\* The read loop comes back to next_message (main.rs 702-704).
next_frame ==
    /\ msg.some
    /\ msg' = None
    /\ emoji_api' = {}
    /\ note_body' = None
    /\ comment' = None
    /\ requests' = <<>>
    /\ ogp' = "ok"
    /\ UNCHANGED <<uiVars, previewVars, cacheVars, supVars>>

InitNorm ==
    /\ msg = None
    /\ emoji_api = {}
    /\ note_body = None
    /\ comment = None
    /\ requests = <<>>
    /\ ogp = "ok"

NextNorm ==
    \/ discard
    \/ normalize_url
    \/ normalize_emojis
    \/ normalize
    \/ next_frame

-----------------------------------------------------------------------------
(* ------------------ MisskeyClient (src/src/lib.rs) --------------------- *)

\* What connect() leaves behind (lib.rs 31-61):
\*   held      : the MisskeyClient value (its `write` sender and its read half) is alive
\*   writer    : the writer task runs; it owns rx and the write half of the socket
\*   keepalive : the heartbeat task runs; it owns the clone tx_heartbeat
\*   queue     : the messages in the unbounded channel (tx, rx)
NewClient == [held |-> TRUE, writer |-> TRUE, keepalive |-> TRUE, queue |-> <<>>]

\* A client of which nothing is left (neither the value nor a task).
Gone == [held |-> FALSE, writer |-> FALSE, keepalive |-> FALSE, queue |-> <<>>]

Settle(cl) == IF ~cl.held /\ ~cl.writer /\ ~cl.keepalive THEN Gone ELSE cl

\* The live senders of the outbound channel: `write` and `tx_heartbeat`.
senders(cl) == (IF cl.held THEN 1 ELSE 0) + (IF cl.keepalive THEN 1 ELSE 0)

\* MisskeyClient::close, and equally the drop of the client value: the `write`
\* sender and the read half go away; the clone tx_heartbeat is not touched.
close(cl) == [cl EXCEPT !.held = FALSE]

drop_client(cls, c) == IF c = 0 THEN cls ELSE [cls EXCEPT ![c] = Settle(close(@))]

\* A writer that takes the newest message of the queue.
writer_recv_newest(c, write_ok) ==
    /\ clients[c].writer
    /\ clients[c].queue # <<>> \/ senders(clients[c]) = 0
    /\ clients' = [clients EXCEPT ![c] =
                      IF @.queue # <<>> /\ write_ok
                      THEN [@ EXCEPT !.queue = SubSeq(@, 1, Len(@) - 1)]
                      ELSE Settle([@ EXCEPT !.writer = FALSE, !.queue = <<>>])]
    /\ UNCHANGED <<uiVars, previewVars, cacheVars, normVars, reconnect_rx, current_config, should_start,
                   account_handles, is_connected, sup_pc, tasks, tx, sent, reconnect_tx>>

\* The writer task (lib.rs 38-45): rx.recv() yields the next message, which is
\* written to the socket (the write succeeds or, once the peer is gone, fails),
\* or None once the queue is empty and every sender is dropped. A failed write
\* or None ends the task, which drops rx and what is still queued.
writer_recv(c, write_ok) ==
    /\ clients[c].writer
    /\ clients[c].queue # <<>> \/ senders(clients[c]) = 0
    /\ clients' = [clients EXCEPT ![c] =
                      IF @.queue # <<>> /\ write_ok THEN [@ EXCEPT !.queue = Tail(@)]
                      ELSE Settle([@ EXCEPT !.writer = FALSE, !.queue = <<>>])]
    /\ UNCHANGED <<uiVars, previewVars, cacheVars, normVars, reconnect_rx, current_config, should_start,
                   account_handles, is_connected, sup_pc, tasks, tx, sent, reconnect_tx>>

\* A heartbeat task that ends after its first ping.
keepalive_once(c) ==
    /\ clients[c].keepalive
    /\ \A t \in DOMAIN tasks : tasks[t].client = c => tasks[t].pc # "subscribe"
    /\ clients[c].writer => Len(clients[c].queue) < MaxOutbound
    /\ clients' = [clients EXCEPT ![c] =
                      IF @.writer THEN [@ EXCEPT !.queue = Append(@, "h"), !.keepalive = FALSE]
                      ELSE Settle([@ EXCEPT !.keepalive = FALSE])]
    /\ UNCHANGED <<uiVars, previewVars, cacheVars, normVars, reconnect_rx, current_config, should_start,
                   account_handles, is_connected, sup_pc, tasks, tx, sent, reconnect_tx>>

\* The heartbeat task after its 60 s sleep (lib.rs 50-55): it sends "h", and
\* ends when the send fails, which it does only when the receiver is gone.
\* No 60 s pass between the return of connect and the call of subscribe, which
\* follow each other without an await (main.rs 685-694).
keepalive_tick(c) ==
    /\ clients[c].keepalive
    /\ \A t \in DOMAIN tasks : tasks[t].client = c => tasks[t].pc # "subscribe"
    /\ clients[c].writer => Len(clients[c].queue) < MaxOutbound
    /\ clients' = [clients EXCEPT ![c] =
                      IF @.writer THEN [@ EXCEPT !.queue = Append(@, "h")]
                      ELSE Settle([@ EXCEPT !.keepalive = FALSE])]
    /\ UNCHANGED <<uiVars, previewVars, cacheVars, normVars, reconnect_rx, current_config, should_start,
                   account_handles, is_connected, sup_pc, tasks, tx, sent, reconnect_tx>>

-----------------------------------------------------------------------------
(* --------------- the per-account loop (main.rs 680-932) ---------------- *)

Accounts == {"A", "B"}

\* AppConfig::accounts with the fields the supervisor reads.
Account(name, enabled) == [name |-> name, enabled |-> enabled]
Configs == { << Account("A", TRUE), Account("B", TRUE) >>,
             << Account("A", TRUE), Account("B", FALSE) >>,
             << Account("A", FALSE), Account("B", FALSE) >> }

\* A task is at an await (connect, read, lookup, backoff, sub_sleep) or inside
\* a synchronous stretch of its poll (subscribe, emit).
Running == {"subscribe", "emit"}

NewTask(name) ==
    [acct |-> name, pc |-> "connect", consecutive_failures |-> 0, cancelled |-> FALSE,
     client |-> 0, slept |-> 0, fails_seen |-> 0, received |-> 0, looked_up |-> FALSE,
     dropped |-> 0]

\* A task whose future has been dropped.
AbortedTask(name) ==
    [acct |-> name, pc |-> "aborted", consecutive_failures |-> 0, cancelled |-> TRUE,
     client |-> 0, slept |-> 0, fails_seen |-> 0, received |-> 0, looked_up |-> FALSE,
     dropped |-> 0]

\* A task that reaches an await after JoinHandle::abort is dropped there.
at_await(task) == IF task.cancelled THEN AbortedTask(task.acct) ELSE task

saturating_sub(a, b) == IF a >= b THEN a - b ELSE 0

\* 2u64.pow(e). Above 2^30 the value is kept at 2^30 (only its minimum with the
\* cap is used); from e = 64 on the multiplication overflows u64 and wraps to 0.
pow2_u64(e) == IF e >= U64Bits THEN 0 ELSE 2 ^ Min(e, 30)

\* main.rs 927: min(2u64.pow(consecutive_failures.saturating_sub(1)), 5)
wait_secs(consecutive_failures) ==
    Min(pow2_u64(saturating_sub(consecutive_failures, 1)), BackoffCap)

\* The multiplications of 2u64.pow(e) overflow u64.
pow_overflows(e) == e >= U64Bits

\* What the build makes of an arithmetic overflow: with overflow checks (the
\* dev profile) a panic, without them (the release profile) the wrapped value.
Builds == {"overflow_checks", "wrapping"}

\* main.rs 922-929: the Err arm of MisskeyClient::connect. The counter is
\* raised, wait_secs is computed and the task sleeps; where the power
\* overflows under overflow checks the task panics instead and is gone.
connect_failed(t, build) ==
    /\ tasks[t].pc = "connect"
    /\ LET f == tasks[t].consecutive_failures + 1
       IN  tasks' = [tasks EXCEPT ![t] =
                        IF pow_overflows(saturating_sub(f, 1)) /\ build = "overflow_checks"
                        THEN [@ EXCEPT !.consecutive_failures = f, !.pc = "panicked",
                                       !.fails_seen = @ + 1]
                        ELSE [@ EXCEPT !.consecutive_failures = f, !.slept = wait_secs(f),
                                       !.pc = "backoff", !.fails_seen = @ + 1]]
    /\ UNCHANGED <<uiVars, previewVars, cacheVars, normVars, reconnect_rx, current_config, should_start,
                   account_handles, is_connected, sup_pc, clients, tx, sent, reconnect_tx>>

\* MisskeyClient::connect returned Err (main.rs 922-929).
connect_fail(t) ==
    /\ tasks[t].consecutive_failures < MaxFailures
    /\ \E build \in Builds : connect_failed(t, build)

\* The same for a server that stays out of reach.
connect_fail_long(t) ==
    /\ tasks[t].consecutive_failures < MaxBackoffFailures
    /\ \E build \in Builds : connect_failed(t, build)

\* The task after a successful connect with the reset of the counter left out.
connected_no_reset(task, c) == [task EXCEPT !.client = c, !.pc = "subscribe"]

\* main.rs 686-688: Ok(client) => consecutive_failures = 0
connected(task, c) ==
    [task EXCEPT !.consecutive_failures = 0, !.client = c, !.pc = "subscribe"]

\* A connect that completes only while no other task waits for its own connect,
\* sleeps in a backoff or awaits a lookup.
connect_ok_exclusive(t) ==
    /\ \A u \in DOMAIN tasks \ {t} : tasks[u].pc \notin {"connect", "backoff", "lookup"}
    /\ tasks[t].pc = "connect"
    /\ Len(clients) < MaxClients
    /\ clients' = Append(clients, NewClient)
    /\ tasks' = [tasks EXCEPT ![t] = connected(@, Len(clients) + 1)]
    /\ UNCHANGED <<uiVars, previewVars, cacheVars, normVars, reconnect_rx, current_config, should_start,
                   account_handles, is_connected, sup_pc, tx, sent, reconnect_tx>>

\* MisskeyClient::connect returned Ok (lib.rs 13-62, main.rs 685-688).
connect_ok(t) ==
    /\ tasks[t].pc = "connect"
    /\ Len(clients) < MaxClients
    /\ clients' = Append(clients, NewClient)
    /\ tasks' = [tasks EXCEPT ![t] = connected(@, Len(clients) + 1)]
    /\ UNCHANGED <<uiVars, previewVars, cacheVars, normVars, reconnect_rx, current_config, should_start,
                   account_handles, is_connected, sup_pc, tx, sent, reconnect_tx>>

\* client.subscribe (lib.rs 64-77, main.rs 694-700): the send fails only when
\* the receiver of the outbound channel is gone.
subscribe(t) ==
    /\ tasks[t].pc = "subscribe"
    /\ LET c == tasks[t].client
       IN  IF clients[c].writer
           THEN LET task == at_await([tasks[t] EXCEPT !.pc = "read", !.fails_seen = 0])
                    sentc == [clients EXCEPT ![c].queue = Append(@, "connect")]
                IN  /\ tasks' = [tasks EXCEPT ![t] = task]
                    /\ clients' = IF task.pc = "aborted" THEN drop_client(sentc, c) ELSE sentc
           ELSE /\ tasks' = [tasks EXCEPT ![t] =
                                at_await([@ EXCEPT !.consecutive_failures = @ + 1,
                                                   !.slept = SubscribeSleep,
                                                   !.pc = "sub_sleep", !.client = 0,
                                                   !.fails_seen = @ + 1])]
                /\ clients' = drop_client(clients, c)
    /\ UNCHANGED <<uiVars, previewVars, cacheVars, normVars, reconnect_rx, current_config, should_start,
                   account_handles, is_connected, sup_pc, tx, sent, reconnect_tx>>

\* A loop that ends after the sleep instead of connecting again.
wake_and_end(t) ==
    /\ tasks[t].pc \in {"backoff", "sub_sleep"}
    /\ tasks' = [tasks EXCEPT ![t] = [@ EXCEPT !.pc = "ended", !.slept = 0]]
    /\ UNCHANGED <<uiVars, previewVars, cacheVars, normVars, reconnect_rx, current_config, should_start,
                   account_handles, is_connected, sup_pc, clients, tx, sent, reconnect_tx>>

\* The sleep after a failure is over (main.rs 697-698, 928): back to connect.
wake(t) ==
    /\ tasks[t].pc \in {"backoff", "sub_sleep"}
    /\ tasks' = [tasks EXCEPT ![t] = [@ EXCEPT !.pc = "connect", !.slept = 0]]
    /\ UNCHANGED <<uiVars, previewVars, cacheVars, normVars, reconnect_rx, current_config, should_start,
                   account_handles, is_connected, sup_pc, clients, tx, sent, reconnect_tx>>

\* The loop is at next_message().await or, with the lookups of a frame handed
\* to a task of their own, also while those run.
reading_or_looking(task) == task.pc \in {"read", "lookup"}

\* The loop is at next_message().await (main.rs 704): no frame is in work.
reading(task) == task.pc = "read"

\* next_message returned a note frame that yields a record (main.rs 704-874).
\* A frame with shortcodes to look up or a url to preview awaits the HTTP
\* answers first (main.rs 758, 817, 878); any other is processed without an await.
\* received numbers the frames of the task in the order of their arrival.
next_message(t, lookups) ==
    /\ reading(tasks[t])
    /\ Len(tx) < MaxRecords
    /\ tasks[t].received < MaxFrames
    /\ tasks' = [tasks EXCEPT ![t] = [@ EXCEPT !.pc = IF lookups THEN "lookup" ELSE "emit",
                                               !.received = @ + 1,
                                               !.looked_up = lookups]]
    /\ UNCHANGED <<uiVars, previewVars, cacheVars, normVars, reconnect_rx, current_config, should_start,
                   account_handles, is_connected, sup_pc, clients, tx, sent, reconnect_tx>>

\* A frame without a record that ends the read loop as an error of the stream does.
drop_frame_and_leave(t, frame) ==
    /\ reading(tasks[t])
    /\ tasks[t].received < MaxFrames
    /\ tasks[t].dropped < MaxDropped
    /\ ~note_of(frame).some
    /\ clients' = drop_client(clients, tasks[t].client)
    /\ tasks' = [tasks EXCEPT ![t] = [@ EXCEPT !.received = @ + 1, !.dropped = @ + 1,
                                               !.pc = "connect", !.client = 0]]
    /\ UNCHANGED <<uiVars, previewVars, cacheVars, normVars, reconnect_rx, current_config, should_start,
                   account_handles, is_connected, sup_pc, tx, sent, reconnect_tx>>

\* next_message returned Ok with a frame that has no note (main.rs 707-714:
\* not a text, not JSON, no body, no type, another type, no body.body): every
\* `if let` falls through without an await and the loop is at next_message again.
drop_frame(t, frame) ==
    /\ reading(tasks[t])
    /\ tasks[t].received < MaxFrames
    /\ tasks[t].dropped < MaxDropped
    /\ ~note_of(frame).some
    /\ tasks' = [tasks EXCEPT ![t] = [@ EXCEPT !.received = @ + 1, !.dropped = @ + 1]]
    /\ UNCHANGED <<uiVars, previewVars, cacheVars, normVars, reconnect_rx, current_config, should_start,
                   account_handles, is_connected, sup_pc, clients, tx, sent, reconnect_tx>>

\* The last HTTP answer of the frame arrived.
lookup_done(t) ==
    /\ tasks[t].pc = "lookup"
    /\ tasks' = [tasks EXCEPT ![t].pc = "emit"]
    /\ UNCHANGED <<uiVars, previewVars, cacheVars, normVars, reconnect_rx, current_config, should_start,
                   account_handles, is_connected, sup_pc, clients, tx, sent, reconnect_tx>>

\* tx_clone.send(comment) (main.rs 889-903), then back to next_message().await.
emit(t) ==
    /\ tasks[t].pc = "emit"
    /\ tx' = Append(tx, [account_name |-> tasks[t].acct, after_abort |-> tasks[t].cancelled,
                         task |-> t, frame |-> tasks[t].received,
                         lookups |-> tasks[t].looked_up])
    /\ LET task == at_await([tasks[t] EXCEPT !.pc = "read", !.looked_up = FALSE])
       IN  /\ tasks' = [tasks EXCEPT ![t] = task]
           /\ clients' = IF task.pc = "aborted" THEN drop_client(clients, tasks[t].client)
                         ELSE clients
    /\ UNCHANGED <<uiVars, previewVars, cacheVars, normVars, reconnect_rx, current_config, should_start,
                   account_handles, is_connected, sup_pc, sent, reconnect_tx>>

\* next_message returned an error or the end of the stream (main.rs 912-919):
\* break, the client goes out of scope, and the outer loop starts over.
stream_end(t) ==
    /\ tasks[t].pc = "read"
    /\ clients' = drop_client(clients, tasks[t].client)
    /\ tasks' = [tasks EXCEPT ![t] = [@ EXCEPT !.pc = "connect", !.client = 0]]
    /\ UNCHANGED <<uiVars, previewVars, cacheVars, normVars, reconnect_rx, current_config, should_start,
                   account_handles, is_connected, sup_pc, tx, sent, reconnect_tx>>

-----------------------------------------------------------------------------
(* ------------------ the supervisor (main.rs 638-944) ------------------- *)

\* Every account of the configuration, enabled or not.
all_accounts(config) == config

\* current_config.accounts.iter().filter(|a| a.enabled).cloned().collect()
enabled_accounts(config) == SelectSeq(config, LAMBDA a : a.enabled)

Range(seq) == { seq[i] : i \in 1..Len(seq) }

\* An abort that cancels nothing.
abort_nothing(task) == task

\* JoinHandle::abort: a task waiting at an await is dropped without being polled
\* again; a task inside its poll goes on to its next await and is dropped there.
abort(task) ==
    IF task.pc \in Running THEN [task EXCEPT !.cancelled = TRUE]
    ELSE AbortedTask(task.acct)

\* A flag that is never set.
never_connected(handles) == FALSE

\* main.rs 938: !account_handles.is_empty()
connected_flag(handles) == handles # <<>>

\* A supervisor that takes the configuration sent last and leaves the others.
sup_poll_newest ==
    /\ sup_pc = "poll"
    /\ IF reconnect_rx # <<>>
       THEN /\ is_connected' = FALSE
            /\ current_config' = reconnect_rx[Len(reconnect_rx)]
            /\ reconnect_rx' = SubSeq(reconnect_rx, 1, Len(reconnect_rx) - 1)
            /\ sup_pc' = "abort"
       ELSE /\ sup_pc' = IF should_start THEN "start" ELSE "sleep"
            /\ UNCHANGED <<is_connected, current_config, reconnect_rx>>
    /\ UNCHANGED <<uiVars, previewVars, cacheVars, normVars, should_start, account_handles, tasks, clients, tx, sent, reconnect_tx>>

\* The top of the supervisor's loop, reached at the start and after each 1 s
\* sleep (main.rs 668, 942). main.rs 644-647: try_recv; on a new configuration,
\* connected := false. Without one, and with nothing to start, the iteration
\* goes to its sleep (main.rs 942).
sup_poll ==
    /\ sup_pc = "poll"
    /\ IF reconnect_rx # <<>>
       THEN /\ is_connected' = FALSE
            /\ current_config' = Head(reconnect_rx)
            /\ reconnect_rx' = Tail(reconnect_rx)
            /\ sup_pc' = "abort"
       ELSE /\ sup_pc' = IF should_start THEN "start" ELSE "sleep"
            /\ UNCHANGED <<is_connected, current_config, reconnect_rx>>
    /\ UNCHANGED <<uiVars, previewVars, cacheVars, normVars, should_start, account_handles, tasks, clients, tx, sent, reconnect_tx>>

\* main.rs 649-653: abort every held handle, should_start := true.
sup_abort ==
    /\ sup_pc = "abort"
    /\ tasks' = [t \in DOMAIN tasks |->
                    IF t \in Range(account_handles) THEN abort(tasks[t]) ELSE tasks[t]]
    /\ clients' = [c \in DOMAIN clients |->
                      IF \E t \in Range(account_handles) :
                             tasks[t].client = c /\ tasks'[t].pc = "aborted"
                      THEN Settle(close(clients[c])) ELSE clients[c]]
    /\ account_handles' = <<>>
    /\ should_start' = TRUE
    /\ sup_pc' = "start"
    /\ UNCHANGED <<uiVars, previewVars, cacheVars, normVars, reconnect_rx, current_config, is_connected, tx, sent, reconnect_tx>>

\* main.rs 657-942: should_start holds; spawn one task per enabled account and
\* set connected, then go to the sleep of main.rs 942; with no enabled account,
\* go to the sleep of main.rs 668.
sup_start ==
    /\ sup_pc = "start"
    /\ sup_pc' = "sleep"
    /\ should_start' = FALSE
    /\ LET enabled == enabled_accounts(current_config)
           spawned == [i \in 1..Len(enabled) |-> NewTask(enabled[i].name)]
           handles == [i \in 1..Len(enabled) |-> Len(tasks) + i]
       IN  IF enabled = <<>>
           THEN UNCHANGED <<tasks, account_handles, is_connected>>
           ELSE /\ tasks' = tasks \o spawned
                /\ account_handles' = account_handles \o handles
                /\ is_connected' = connected_flag(account_handles')
    /\ UNCHANGED <<uiVars, previewVars, cacheVars, normVars, reconnect_rx, current_config, clients, tx, sent, reconnect_tx>>

\* tokio::time::sleep(1 s) is over (main.rs 668, 942): the next iteration.
sup_sleep ==
    /\ sup_pc = "sleep"
    /\ sup_pc' = "poll"
    /\ UNCHANGED <<uiVars, previewVars, cacheVars, normVars, reconnect_rx, current_config, should_start,
                   account_handles, is_connected, tasks, clients, tx, sent, reconnect_tx>>

\* reconnect_tx.send(config) (main.rs 404, 441, 1038).
send_reconfig(config) ==
    /\ sent < MaxReconfigs
    /\ reconnect_rx' = Append(reconnect_rx, config)
    /\ sent' = sent + 1
    /\ reconnect_tx' = Append(reconnect_tx,
                              [config |-> config, waiting |-> Len(reconnect_rx) + 1])
    /\ UNCHANGED <<uiVars, previewVars, cacheVars, normVars, current_config, should_start, account_handles,
                   is_connected, sup_pc, tasks, clients, tx>>

\* The window drains the output channel (main.rs 1084-1094).
consume ==
    /\ tx # <<>>
    /\ tx' = <<>>
    /\ UNCHANGED <<uiVars, previewVars, cacheVars, normVars, reconnect_rx, current_config, should_start,
                   account_handles, is_connected, sup_pc, tasks, clients, sent, reconnect_tx>>

\* The state in which the supervisor task starts, with the configuration
\* loaded at start-up (main.rs 625-640).
InitSupWith(config) ==
    /\ reconnect_rx = <<>>
    /\ current_config = config
    /\ should_start = TRUE
    /\ account_handles = <<>>
    /\ is_connected = FALSE
    /\ sup_pc = "poll"
    /\ tasks = <<>>
    /\ clients = <<>>
    /\ tx = <<>>
    /\ sent = 0
    /\ reconnect_tx = <<>>

InitSup == \E config \in Configs : InitSupWith(config)

-----------------------------------------------------------------------------
EmptyMap == <<>>

InitCacheVars ==
    /\ static_cache = EmptyMap
    /\ animated_cache = EmptyMap
    /\ downloading = EmptyMap
    /\ rx = <<>>
    /\ threads = [u \in Urls |-> 0]
    /\ miss_calls = [u \in Urls |-> 0]
    /\ miss_fetches = [u \in Urls |-> 0]
    /\ failed = {}
    /\ last_ret = [url |-> "-", ret |-> "-", spawn |-> FALSE, known_failed |-> FALSE,
                   frame |-> NoFrame]
    /\ ticks = 0
    /\ last_drain = <<>>

InitIdleSup == InitSupWith(<< Account("A", FALSE), Account("B", FALSE) >>)

-----------------------------------------------------------------------------
(* ------------- SettingsWindow: accounts and MiAuth (main.rs 332-562) ---- *)

Hosts == {"h1", "h2"}

\* Account::new(name, host, token, ..) with the fields the settings flow reads.
SettingsAccount(host, token) == [host |-> host, token |-> token]

\* auth_response.token of the session opened at `host` (miauth.rs 55-80).
MiAuthToken(host) == [kind |-> "miauth", host |-> host]

\* What the user typed into the token field.
TypedToken == [kind |-> "typed", host |-> ""]

\* self.config.clone() as the supervisor reads it: the accounts in their order
\* (an account of Account::new is enabled).
AsConfig(accounts) == [i \in DOMAIN accounts |-> Account(accounts[i].host, TRUE)]

PendingMiAuth(account_idx, host) == [account_idx |-> account_idx, host |-> host]

\* The text fields after clear().
NoText == ""

\* Texts typed into the name field and the token field.
Names == {NoText, "name"}
TokenTexts == {NoText, "token"}

\* text_edit_singleline on the three fields of the form (main.rs 456, 461, 520)
\* and the click on a server of the list (main.rs 507).
edit_form(name, host, token) ==
    /\ <<name, host, token>> # <<edit_account_name, edit_account_host, edit_account_token>>
    /\ edit_account_name' = name
    /\ edit_account_host' = host
    /\ edit_account_token' = token
    /\ UNCHANGED <<config_accounts, selected_account_index, pending_miauth,
                   tokenVars, previewVars, cacheVars, normVars, supVars>>

\* The click on an account of the list (main.rs 252-254, 320-322).
select_account(idx) ==
    /\ idx < Len(config_accounts)
    /\ selected_account_index # Some(idx)
    /\ selected_account_index' = Some(idx)
    /\ UNCHANGED <<config_accounts, pending_miauth, edit_account_name, edit_account_host,
                   edit_account_token, tokenVars, previewVars, cacheVars, normVars, supVars>>

\* The button "MiAuth" (main.rs 524-539): the session is remembered with the
\* index one past the last account.
miauth_login ==
    /\ edit_account_host # NoText
    /\ pending_miauth' = Some(PendingMiAuth(Len(config_accounts), edit_account_host))
    /\ UNCHANGED <<config_accounts, selected_account_index, edit_account_name,
                   edit_account_host, edit_account_token,
                   tokenVars, previewVars, cacheVars, normVars, supVars>>

\* main.rs 366-398: the token goes to a new account when the remembered index
\* is past the end of the list, else to the account at the remembered index.
attach_token(accounts, p) ==
    IF p.account_idx >= Len(accounts)
    THEN Append(accounts, SettingsAccount(p.host, Some(MiAuthToken(p.host))))
    ELSE [accounts EXCEPT ![p.account_idx + 1].token = Some(MiAuthToken(p.host))]

\* One frame of the settings window with a pending session (main.rs 333-419):
\* session.check() answers; on Ok the token is attached, the configuration is
\* saved and, when the save succeeded, sent on reconnect_tx, and the session is
\* forgotten; the button "cancel" forgets it too. A frame with a check that
\* fails and no cancel changes nothing.
miauth_poll(result, save_ok, cancel_auth) ==
    /\ pending_miauth # None
    /\ result = "ok" \/ cancel_auth
    /\ LET p == pending_miauth.v
           appended == p.account_idx >= Len(config_accounts)
       IN  /\ (result = "ok" /\ appended) => Len(config_accounts) < MaxAccounts
           /\ (result = "ok" /\ save_ok) => sent < MaxReconfigs
           /\ config_accounts' = IF result = "ok" THEN attach_token(config_accounts, p)
                                 ELSE config_accounts
           /\ IF result = "ok" /\ appended
              THEN /\ edit_account_name' = NoText
                   /\ edit_account_host' = NoText
                   /\ edit_account_token' = NoText
              ELSE UNCHANGED <<edit_account_name, edit_account_host, edit_account_token>>
           /\ IF result = "ok" /\ save_ok
              THEN /\ reconnect_rx' = Append(reconnect_rx, AsConfig(config_accounts'))
                   /\ sent' = sent + 1
                   /\ reconnect_tx' = Append(reconnect_tx,
                          [config |-> AsConfig(config_accounts'),
                           waiting |-> Len(reconnect_rx) + 1])
              ELSE UNCHANGED <<reconnect_rx, sent, reconnect_tx>>
    /\ pending_miauth' = None
    /\ UNCHANGED <<selected_account_index, current_config, should_start, account_handles,
                   is_connected, sup_pc, tasks, clients, tx,
                   tokenVars, previewVars, cacheVars, normVars>>

\* The button "delete the selected account" (main.rs 423-433).
delete_account ==
    /\ selected_account_index # None
    /\ selected_account_index.v < Len(config_accounts)
    /\ Len(config_accounts) > 1
    /\ config_accounts' = [i \in 1..(Len(config_accounts) - 1) |->
                              IF i <= selected_account_index.v THEN config_accounts[i]
                              ELSE config_accounts[i + 1]]
    /\ selected_account_index' = None
    /\ UNCHANGED <<pending_miauth, edit_account_name, edit_account_host, edit_account_token,
                   tokenVars, previewVars, cacheVars, normVars, supVars>>

\* The button "add account" (main.rs 546-560).
add_account ==
    /\ edit_account_name # NoText
    /\ edit_account_host # NoText
    /\ Len(config_accounts) < MaxAccounts
    /\ config_accounts' =
           Append(config_accounts,
                  SettingsAccount(edit_account_host,
                                  IF edit_account_token = NoText THEN None
                                  ELSE Some(TypedToken)))
    /\ edit_account_name' = NoText
    /\ edit_account_host' = NoText
    /\ edit_account_token' = NoText
    /\ UNCHANGED <<selected_account_index, pending_miauth,
                   tokenVars, previewVars, cacheVars, normVars, supVars>>

\* SettingsWindow::new (main.rs 190-199) over a configuration as AppConfig::new
\* leaves it (config.rs 183-194: never without an account).
InitSettingsWith(accounts) ==
    /\ config_accounts = accounts
    /\ selected_account_index = None
    /\ pending_miauth = None
    /\ edit_account_name = NoText
    /\ edit_account_host = NoText
    /\ edit_account_token = NoText

InitSettingsIdle == InitSettingsWith(<< SettingsAccount("h1", None) >>)

-----------------------------------------------------------------------------
(* ------------- the token of an Account (config.rs 5-28, 101-120) -------- *)

\* Strings are sequences of bytes (a token, as_bytes()) or, for Base64 text,
\* sequences of positions in the alphabet A-Z a-z 0-9 + /, with Pad for '='
\* and NotBase64 for a character that is not in the alphabet.
Pad == 64
NotBase64 == 65

\* b"MisskeyPostViewer2024"
OBFUSCATION_KEY ==
    <<77, 105, 115, 115, 107, 101, 121, 80, 111, 115, 116, 86, 105, 101, 119, 101, 114,
      50, 48, 50, 52>>

\* a ^ b on u8
RECURSIVE xor(_, _)
xor(a, b) ==
    IF a = 0 THEN b
    ELSE IF b = 0 THEN a
    ELSE 2 * xor(a \div 2, b \div 2) + ((a + b) % 2)

\* .enumerate().map(|(i, &b)| b ^ key_bytes[i % key_bytes.len()])
xor_key(bytes) ==
    [i \in 1..Len(bytes) |-> xor(bytes[i], OBFUSCATION_KEY[((i - 1) % Len(OBFUSCATION_KEY)) + 1])]

\* BASE64.encode (the STANDARD engine: padded)
RECURSIVE base64_encode(_)
base64_encode(bytes) ==
    IF Len(bytes) = 0 THEN <<>>
    ELSE IF Len(bytes) = 1
    THEN << bytes[1] \div 4, (bytes[1] % 4) * 16, Pad, Pad >>
    ELSE IF Len(bytes) = 2
    THEN << bytes[1] \div 4, (bytes[1] % 4) * 16 + bytes[2] \div 16, (bytes[2] % 16) * 4, Pad >>
    ELSE << bytes[1] \div 4, (bytes[1] % 4) * 16 + bytes[2] \div 16,
            (bytes[2] % 16) * 4 + bytes[3] \div 64, bytes[3] % 64 >>
         \o base64_encode(SubSeq(bytes, 4, Len(bytes)))

is_sextet(ch) == ch \in 0..63

\* One group of four characters; padding is accepted in the last group only,
\* and the bits that belong to no byte must be zero.
decode_quad(q, last) ==
    IF is_sextet(q[1]) /\ is_sextet(q[2]) /\ is_sextet(q[3]) /\ is_sextet(q[4])
    THEN Some(<< q[1] * 4 + q[2] \div 16, (q[2] % 16) * 16 + q[3] \div 4,
                 (q[3] % 4) * 64 + q[4] >>)
    ELSE IF last /\ is_sextet(q[1]) /\ is_sextet(q[2]) /\ is_sextet(q[3]) /\ q[4] = Pad
            /\ q[3] % 4 = 0
    THEN Some(<< q[1] * 4 + q[2] \div 16, (q[2] % 16) * 16 + q[3] \div 4 >>)
    ELSE IF last /\ is_sextet(q[1]) /\ is_sextet(q[2]) /\ q[3] = Pad /\ q[4] = Pad
            /\ q[2] % 16 = 0
    THEN Some(<< q[1] * 4 + q[2] \div 16 >>)
    ELSE None

\* BASE64.decode(encoded).ok() (the STANDARD engine: canonical padding required)
RECURSIVE base64_decode(_)
base64_decode(text) ==
    IF Len(text) = 0 THEN Some(<<>>)
    ELSE IF Len(text) < 4 THEN None
    ELSE LET head == decode_quad(SubSeq(text, 1, 4), Len(text) = 4)
             rest == base64_decode(SubSeq(text, 5, Len(text)))
         IN  IF head.some /\ rest.some THEN Some(head.v \o rest.v) ELSE None

is_continuation(bytes, i) == i <= Len(bytes) /\ bytes[i] \in 128..191

\* String::from_utf8(original).is_ok(), from byte i on
RECURSIVE is_utf8_from(_, _)
is_utf8_from(bytes, i) ==
    IF i > Len(bytes) THEN TRUE
    ELSE LET b == bytes[i]
         IN  IF b < 128 THEN is_utf8_from(bytes, i + 1)
             ELSE IF b \in 194..223
             THEN is_continuation(bytes, i + 1) /\ is_utf8_from(bytes, i + 2)
             ELSE IF b \in 224..239
             THEN /\ is_continuation(bytes, i + 1) /\ is_continuation(bytes, i + 2)
                  /\ (b = 224 => bytes[i + 1] >= 160)
                  /\ (b = 237 => bytes[i + 1] <= 159)
                  /\ is_utf8_from(bytes, i + 3)
             ELSE IF b \in 240..244
             THEN /\ is_continuation(bytes, i + 1) /\ is_continuation(bytes, i + 2)
                  /\ is_continuation(bytes, i + 3)
                  /\ (b = 240 => bytes[i + 1] >= 144)
                  /\ (b = 244 => bytes[i + 1] <= 143)
                  /\ is_utf8_from(bytes, i + 4)
             ELSE FALSE

from_utf8(bytes) == IF is_utf8_from(bytes, 1) THEN Some(bytes) ELSE None

\* An obfuscation whose key starts one byte late.
obfuscate_token_late_key(token) ==
    base64_encode([i \in 1..Len(token) |->
                      xor(token[i], OBFUSCATION_KEY[(i % Len(OBFUSCATION_KEY)) + 1])])

\* config.rs 8-17
obfuscate_token(token) == base64_encode(xor_key(token))

\* config.rs 19-28
deobfuscate_token(encoded) ==
    LET decoded == base64_decode(encoded)
    IN  IF decoded.some THEN from_utf8(xor_key(decoded.v)) ELSE None

\* The three token fields of an Account.
AccountTokens(token, raw, obfuscated) ==
    [token |-> token, token_raw |-> raw, token_obfuscated |-> obfuscated]

\* Account::restore_token (config.rs 102-110)
restore_token(a) ==
    IF a.token_obfuscated.some
    THEN [a EXCEPT !.token = deobfuscate_token(a.token_obfuscated.v)]
    ELSE IF a.token_raw.some
    THEN [a EXCEPT !.token = a.token_raw, !.token_raw = None]
    ELSE a

\* Account::prepare_for_save (config.rs 113-120)
prepare_for_save(a) ==
    [a EXCEPT !.token_obfuscated = IF a.token.some THEN Some(obfuscate_token(a.token.v))
                                   ELSE None,
              !.token_raw = None]

\* Tokens: "", "a", "ab", "abc", "é" (two bytes) and the 22 letters a..v, one
\* more than the key has bytes.
Abc == <<97, 98, 99>>
Letters22 == [i \in 1..22 |-> 96 + i]
Tokens == { <<>>, <<97>>, <<97, 98>>, Abc, <<195, 169>>, Letters22 }

\* token_obfuscated of a configuration file: what save wrote for a token
\* (config.rs 219-222), or text that a hand has edited: cut short, with a
\* character outside the alphabet, with bits set that belong to no byte, or
\* decoding to bytes that are no UTF-8.
BrokenTexts == { <<11, 0, Pad>>, <<11, 0, 44, NotBase64>>, <<11, 1, Pad, Pad>>,
                 <<44, 32, Pad, Pad>> }
StoredTexts == { obfuscate_token(t) : t \in Tokens } \cup BrokenTexts

OptTokens == {None} \cup { Some(t) : t \in Tokens }

\* An account as serde leaves it (token is skipped), and one of Account::new.
LoadedAccounts ==
    { AccountTokens(None, raw, obf) :
        raw \in OptTokens, obf \in {None} \cup { Some(s) : s \in StoredTexts } }
NewAccounts == { AccountTokens(token, None, None) : token \in OptTokens }

\* The last two calls, each with the account it found.
Called(op) ==
    LET calls == token_op \o << [op |-> op, before |-> account] >>
    IN  IF Len(calls) <= 2 THEN calls ELSE Tail(calls)

call_restore_token ==
    /\ account' = restore_token(account)
    /\ token_op' = Called("restore_token")
    /\ UNCHANGED <<settingsVars, previewVars, cacheVars, normVars, supVars>>

call_prepare_for_save ==
    /\ account' = prepare_for_save(account)
    /\ token_op' = Called("prepare_for_save")
    /\ UNCHANGED <<settingsVars, previewVars, cacheVars, normVars, supVars>>

InitTokenWith(a) ==
    /\ account = a
    /\ token_op = <<>>

InitTokenIdle == InitTokenWith(AccountTokens(None, None, None))

InitUi == InitSettingsIdle /\ InitTokenIdle

-----------------------------------------------------------------------------
(* ------------- PreviewImageCache (main.rs 28-132) ---------------------- *)

\* The urls of thumbnails and favicons the renderer asks for.
PreviewUrls == {"thumb", "icon", "other"}

\* Where the download thread of load_image gives up (main.rs 74-109): the
\* client is not built, the request fails, the status is not a success, the
\* body is not read, the image is not decoded.
PreviewFailures == {"client", "send", "status", "bytes", "decode"}

\* egui::TextureHandle of a decoded image.
Texture == Some("texture")

\* PreviewImageCache::new (main.rs 36-44)
InitPreview ==
    /\ preview_cache = EmptyMap
    /\ preview_downloading = {}
    /\ preview_rx = <<>>
    /\ preview_threads = {}
    /\ preview_failed = {}
    /\ preview_drained = {}
    /\ preview_ret = [url |-> "-", ret |-> None]

\* PreviewImageCache::load_image (main.rs 46-62, 114): the cached entry, or
\* None while the url is downloading, or None after marking it downloading and
\* spawning its thread.
load_image(url) ==
    /\ IF url \in DOMAIN preview_cache
       THEN /\ preview_ret' = [url |-> url, ret |-> preview_cache[url]]
            /\ UNCHANGED <<preview_downloading, preview_threads>>
       ELSE /\ preview_ret' = [url |-> url, ret |-> None]
            /\ IF url \in preview_downloading
               THEN UNCHANGED <<preview_downloading, preview_threads>>
               ELSE /\ preview_downloading' = preview_downloading \cup {url}
                    /\ preview_threads' = preview_threads \cup {url}
    /\ UNCHANGED <<preview_cache, preview_rx, preview_failed, preview_drained,
                   cacheVars, normVars, supVars, uiVars>>

\* The thread of load_image, every step a success (main.rs 62-86): it sends
\* the url with the decoded image and ends.
preview_thread_ok(url) ==
    /\ url \in preview_threads
    /\ preview_threads' = preview_threads \ {url}
    /\ preview_rx' = Append(preview_rx, url)
    /\ UNCHANGED <<preview_cache, preview_downloading, preview_failed, preview_drained,
                   preview_ret, cacheVars, normVars, supVars, uiVars>>

\* The thread of load_image giving up (main.rs 88-110): each Err arm and the
\* arm of a status that is no success only print in debug mode; the thread
\* ends without a send.
preview_thread_fail(url, why) ==
    /\ url \in preview_threads
    /\ why \in PreviewFailures
    /\ preview_threads' = preview_threads \ {url}
    /\ preview_failed' = preview_failed \cup {url}
    /\ UNCHANGED <<preview_cache, preview_downloading, preview_rx, preview_drained,
                   preview_ret, cacheVars, normVars, supVars, uiVars>>

\* PreviewImageCache::process_downloads (main.rs 117-131): for every message
\* of the channel, the url leaves downloading and gets its texture in the cache.
preview_process_downloads ==
    /\ preview_downloading' = preview_downloading \ Range(preview_rx)
    /\ preview_cache' = [u \in DOMAIN preview_cache \cup Range(preview_rx) |->
                            IF u \in Range(preview_rx) THEN Texture ELSE preview_cache[u]]
    /\ preview_rx' = <<>>
    /\ preview_drained' = preview_failed
    /\ UNCHANGED <<preview_threads, preview_failed, preview_ret,
                   cacheVars, normVars, supVars, uiVars>>

InitPreviewCache == InitCacheVars /\ InitNorm /\ InitIdleSup /\ InitPreview /\ InitUi

NextPreview ==
    \/ \E url \in PreviewUrls : load_image(url)
    \/ \E url \in PreviewUrls : preview_thread_ok(url)
    \/ \E url \in PreviewUrls, why \in PreviewFailures : preview_thread_fail(url, why)
    \/ preview_process_downloads

SpecPreview == InitPreviewCache /\ [][NextPreview]_vars

\* C19: once the thread of load_image for a url has ended in a failure and
\* process_downloads has run since, the url is not in downloading and the cache
\* holds the entry None for it.
C19_FailureCached ==
    \A url \in preview_drained :
        /\ url \notin preview_downloading
        /\ url \in DOMAIN preview_cache
        /\ preview_cache[url] = None

-----------------------------------------------------------------------------

InitCache == InitCacheVars /\ InitNorm /\ InitIdleSup /\ InitPreview /\ InitUi

NextCache ==
    \/ \E url \in Urls : load_emoji(url)
    \/ \E url \in Urls, o \in FetchOutcomes, b \in Bytes : download_thread(url, o, b)
    \/ process_downloads
    \/ \E dt \in DeltaMs : update_animations(dt)

SpecCache == InitCache /\ [][NextCache]_vars

\* The same, with every spawned thread running to its end (each request is
\* bounded by the 10 s timeout of emoji.rs 66) and the owner calling
\* process_downloads again and again (once per frame, main.rs update).
SpecCacheFair ==
    /\ SpecCache
    /\ \A url \in Urls :
           WF_vars(\E o \in FetchOutcomes, b \in Bytes : download_thread(url, o, b))
    /\ WF_vars(process_downloads)

InitNormaliser == InitCacheVars /\ InitNorm /\ InitIdleSup /\ InitPreview /\ InitUi

SpecNorm == InitNormaliser /\ [][NextNorm]_vars

\* The supervisor and the account loops, started with any configuration and
\* sent any configuration later by the settings window. The writer and heartbeat
\* tasks of the clients, which change nothing the supervisor or an account loop
\* reads after subscribe, take their steps in SpecLoop.
Init == InitCacheVars /\ InitNorm /\ InitSup /\ InitPreview /\ InitUi

\* With several accounts the tasks are kept to fewer failures and frames.
Retrying == { t \in DOMAIN tasks : tasks[t].consecutive_failures < MaxSupFailures }
Receiving == { t \in DOMAIN tasks : Len(tx) < MaxSupRecords /\ tasks[t].received < MaxSupFrames }

Next ==
    \/ sup_poll
    \/ sup_abort
    \/ sup_start
    \/ sup_sleep
    \/ \E config \in Configs : send_reconfig(config)
    \/ consume
    \/ \E t \in Retrying : connect_fail(t)
    \/ \E t \in DOMAIN tasks : connect_ok(t)
    \/ \E t \in DOMAIN tasks : subscribe(t)
    \/ \E t \in DOMAIN tasks : wake(t)
    \/ \E t \in Receiving, lookups \in BOOLEAN : next_message(t, lookups)
    \/ \E t \in DOMAIN tasks : lookup_done(t)
    \/ \E t \in DOMAIN tasks : emit(t)
    \/ \E t \in DOMAIN tasks : stream_end(t)

Spec == Init /\ [][Next]_vars

\* One enabled account and no reconfiguration: the account loop and its clients.
InitLoop == InitCacheVars /\ InitNorm /\ InitSupWith(<< Account("A", TRUE) >>) /\ InitPreview /\ InitUi

NextLoop ==
    \/ sup_poll
    \/ sup_start
    \/ sup_sleep
    \/ consume
    \/ \E t \in DOMAIN tasks : connect_fail(t)
    \/ \E t \in DOMAIN tasks : connect_ok(t)
    \/ \E t \in DOMAIN tasks : subscribe(t)
    \/ \E t \in DOMAIN tasks : wake(t)
    \/ \E t \in DOMAIN tasks, lookups \in BOOLEAN : next_message(t, lookups)
    \/ \E t \in DOMAIN tasks, frame \in OtherFrames : drop_frame(t, frame)
    \/ \E t \in DOMAIN tasks : lookup_done(t)
    \/ \E t \in DOMAIN tasks : emit(t)
    \/ \E t \in DOMAIN tasks : stream_end(t)
    \/ \E c \in DOMAIN clients, write_ok \in BOOLEAN : writer_recv(c, write_ok)
    \/ \E c \in DOMAIN clients : keepalive_tick(c)

SpecLoop == InitLoop /\ [][NextLoop]_vars

\* One account whose server stays out of reach: every connect fails.
NextBackoff ==
    \/ sup_poll
    \/ sup_start
    \/ sup_sleep
    \/ \E t \in DOMAIN tasks : connect_fail_long(t)
    \/ \E t \in DOMAIN tasks : wake(t)

SpecBackoff == InitLoop /\ [][NextBackoff]_vars

\* The settings window: the form, the list and the MiAuth poll, frame by frame
\* in any order, over a configuration of one or two accounts.
InitSettings ==
    /\ InitCacheVars /\ InitNorm /\ InitIdleSup /\ InitPreview /\ InitTokenIdle
    /\ \E accounts \in { << SettingsAccount("h1", None) >>,
                          << SettingsAccount("h1", None), SettingsAccount("h2", None) >> } :
           InitSettingsWith(accounts)

NextSettings ==
    \/ \E name \in Names, host \in Hosts \cup {NoText}, token \in TokenTexts :
           edit_form(name, host, token)
    \/ \E idx \in 0..(MaxAccounts - 1) : select_account(idx)
    \/ miauth_login
    \/ \E result \in {"ok", "err"}, save_ok \in BOOLEAN, cancel_auth \in BOOLEAN :
           miauth_poll(result, save_ok, cancel_auth)
    \/ delete_account
    \/ add_account

SpecSettings == InitSettings /\ [][NextSettings]_vars

\* One Account, loaded from a file or made by Account::new, and the calls of
\* restore_token and prepare_for_save on it in any order.
InitToken ==
    /\ InitCacheVars /\ InitNorm /\ InitIdleSup /\ InitPreview /\ InitSettingsIdle
    /\ \E a \in LoadedAccounts \cup NewAccounts : InitTokenWith(a)

NextToken == call_restore_token \/ call_prepare_for_save

SpecToken == InitToken /\ [][NextToken]_vars

\* The same, with the timers of tokio::time::sleep firing: a sleeping task is
\* woken once its delay has passed.
LoopTask == 1
SpecLoopFair == SpecLoop /\ WF_vars(LoopTask \in DOMAIN tasks /\ wake(LoopTask))

-----------------------------------------------------------------------------
(* ----------------------- properties of the cache ----------------------- *)

\* C1: however many load_emoji calls for one url miss the caches before the
\* url's completion is drained, exactly one download thread was started for
\* them, and never two download threads are alive for the same url.
C1_OneFetchPerUrl ==
    \A u \in Urls :
        /\ threads[u] <= 1
        /\ miss_calls[u] >= 1 => miss_fetches[u] = 1

\* Several calls were made for a url whose completion waits undrained in the channel.
C1_Witness ==
    \E u \in Urls :
        /\ miss_calls[u] = MaxCalls
        /\ miss_fetches[u] = 1
        /\ threads[u] = 0
        /\ \E i \in 1..Len(rx) : rx[i][1] = u

\* C2: a url whose drained completion was a fetch failure or a decode failure
\* is in the static cache as a negative entry, and a load_emoji call for it
\* returns no asset and starts no download.
C2_FailureIsCachedNegative ==
    /\ \A u \in failed :
          /\ u \in DOMAIN static_cache
          /\ static_cache[u] = "None"
          /\ u \notin DOMAIN downloading
    /\ last_ret.known_failed => last_ret.ret = "None" /\ ~last_ret.spawn

\* load_emoji was called for a url after its failed download had been drained.
C2_Witness ==
    /\ last_ret.known_failed
    /\ last_ret.url \in failed
    /\ ~ends_with_gif(last_ret.url)
    /\ threads[last_ret.url] = 0

\* C7: update_animations(260) on the entry with frame durations 100/150/200,
\* cursor 0 and accumulator 0 leaves the cursor at 2 with 10 ms accumulated
\* (the subtraction is repeated within one call).
C7_AdvanceLoops ==
    [][update_animations(260) =>
         \A u \in DOMAIN animated_cache :
             animated_cache[u] = AnimatedEmoji(<<100, 150, 200>>, 3) =>
                 /\ animated_cache'[u].current_frame = 2
                 /\ animated_cache'[u].elapsed_ms = 10]_vars

\* C9: every frame duration stored in an animated entry is at least 10 ms.
C9_DurationFloor ==
    \A u \in DOMAIN animated_cache :
        \A i \in 1..Len(animated_cache[u].frame_durations) :
            animated_cache[u].frame_durations[i] >= MinFrameMs

\* C13: load_emoji returns at once, in this order: the current frame of the
\* animated entry; else the static entry (a texture or, for a negative entry,
\* nothing); else nothing when the url is marked downloading; else nothing,
\* after marking the url downloading and starting one download thread. A thread
\* is started only for a url in neither cache and not marked downloading, and
\* the call waits for no thread and takes nothing from the channel.
C13_LookupOrder ==
    [][\A u \in Urls :
          load_emoji(u) =>
              /\ rx' = rx
              /\ \A w \in Urls : w # u => threads'[w] = threads[w]
              /\ IF u \in DOMAIN animated_cache
                 THEN /\ last_ret'.ret = "Some"
                      /\ last_ret'.frame = animated_cache[u].current_frame
                      /\ threads' = threads /\ downloading' = downloading
                 ELSE IF u \in DOMAIN static_cache
                 THEN /\ last_ret'.ret = static_cache[u]
                      /\ threads' = threads /\ downloading' = downloading
                 ELSE IF u \in DOMAIN downloading
                 THEN /\ last_ret'.ret = "None"
                      /\ threads' = threads /\ downloading' = downloading
                 ELSE /\ last_ret'.ret = "None"
                      /\ threads'[u] = threads[u] + 1
                      /\ DOMAIN downloading' = DOMAIN downloading \cup {u}]_vars

\* load_emoji returned the second frame of an animated entry whose cursor had
\* moved on.
C13_Witness ==
    /\ last_ret.ret = "Some"
    /\ last_ret.frame = 1
    /\ last_ret.url \in DOMAIN animated_cache
    /\ animated_cache[last_ret.url].current_frame = 1

-----------------------------------------------------------------------------
(* --------------------- properties of the normaliser -------------------- *)

\* C10: the displayed body of an emitted record has at most 100 + 3 characters
\* and the repost body at most 80 + 3; a longer text is cut to exactly its
\* first 100 (80) characters followed by "...", a text within the limit is
\* unchanged.
C10_Truncation ==
    comment.some =>
        LET body == text_content(note_body.v)
            shown == comment.v.text
        IN  /\ Len(shown) <= TextLimit + 3
            /\ Len(body) > TextLimit => shown = SubSeq(body, 1, TextLimit) \o Ellipsis
            /\ Len(body) <= TextLimit => shown = body
            /\ comment.v.renote_info.some =>
                  LET raw == orig_text_raw(note_body.v.renote.v)
                      rn == comment.v.renote_info.v.orig_text
                  IN  /\ Len(rn) <= RenoteLimit + 3
                      /\ Len(raw) > RenoteLimit => rn = SubSeq(raw, 1, RenoteLimit) \o Ellipsis
                      /\ Len(raw) <= RenoteLimit => rn = raw

\* A renote whose original text has 90 wide characters was cut to 80 + 3.
C10_Witness ==
    /\ comment.some
    /\ note_body.v.renote.some
    /\ ~note_body.v.renote.v.cw.some
    /\ note_body.v.renote.v.text = Some(Str(Wide, 90))
    /\ Len(comment.v.renote_info.v.orig_text) = RenoteLimit + 3
    /\ comment.v.text = comment.v.renote_info.v.orig_text

-----------------------------------------------------------------------------
(* ---------------------- properties of the account loop ----------------- *)

\* C3: the delay slept after the n-th connection failure in a row, counted
\* from the start of the loop or from the last successful subscribe, is
\* 1, 2, 4, 5, 5, ... seconds; so the first failure after a successful
\* subscribe is followed by 1 second.
C3_BackoffSequence ==
    \A t \in DOMAIN tasks :
        tasks[t].pc = "backoff" =>
            tasks[t].slept = CASE tasks[t].fails_seen = 1 -> 1
                               [] tasks[t].fails_seen = 2 -> 2
                               [] tasks[t].fails_seen = 3 -> 4
                               [] OTHER -> 5

\* A loop that had subscribed and lost its stream sleeps after a first failure
\* again, while its earlier client is still there.
C3_Witness ==
    \E t \in DOMAIN tasks :
        /\ tasks[t].pc = "backoff"
        /\ tasks[t].fails_seen = 1
        /\ tasks[t].slept = 1
        /\ Len(clients) >= 1
        /\ clients[1].queue = << "connect" >>

\* C4: whenever an account loop leaves its read loop because the stream failed
\* or ended, it counts one more consecutive failure and sleeps
\* min(2^(failures-1), 5) seconds before it connects again; it never goes from
\* reading straight to a new connect attempt.
C4_EveryFailureBacksOff ==
    [][\A t \in DOMAIN tasks :
          (tasks[t].pc = "read" /\ tasks'[t].pc \notin {"read", "lookup", "emit", "aborted"}) =>
              /\ tasks'[t].pc = "backoff"
              /\ tasks'[t].consecutive_failures = tasks[t].consecutive_failures + 1
              /\ tasks'[t].slept = Min(2 ^ tasks[t].consecutive_failures, 5)]_vars

\* C8: once the client value is dropped the outbound queue is closed: nothing
\* is enqueued any more (the keepalive has stopped), and the writer ends by
\* finding the queue empty and closed, not by a failed socket write.
C8_CloseEndsTasks ==
    [][\A c \in DOMAIN clients :
          ~clients[c].held =>
              /\ Len(clients'[c].queue) <= Len(clients[c].queue)
              /\ (clients[c].writer /\ ~clients'[c].writer) => clients[c].queue = <<>>]_vars

-----------------------------------------------------------------------------
(* ----------------------- properties of the supervisor ------------------ *)

\* C5: a reconfiguration is handled in this order: the connected flag is false
\* before the handles are aborted; after the abort no handle is held and every
\* task spawned so far is cancelled; after the spawn the held handles are, one
\* for one and in order, uncancelled tasks for the enabled accounts of the new
\* list, every other task is cancelled, and the flag tells whether a handle is held.
C5_Reconfigure ==
    LET enabled == enabled_accounts(current_config)
    IN  /\ sup_pc = "abort" => ~is_connected
        /\ sup_pc = "start" =>
              /\ ~is_connected
              /\ account_handles = <<>>
              /\ \A t \in DOMAIN tasks : tasks[t].cancelled
        /\ (sup_pc = "poll" /\ ~should_start) =>
              /\ Len(account_handles) = Len(enabled)
              /\ \A i \in 1..Len(account_handles) :
                    /\ account_handles[i] \in DOMAIN tasks
                    /\ tasks[account_handles[i]].acct = enabled[i].name
                    /\ ~tasks[account_handles[i]].cancelled
                    /\ \A j \in 1..Len(account_handles) :
                          account_handles[i] = account_handles[j] => i = j
              /\ \A t \in DOMAIN tasks :
                    t \notin Range(account_handles) => tasks[t].cancelled
              /\ is_connected = (account_handles # <<>>)

\* A reconfiguration that replaced two running loops by two fresh ones.
C5_Witness ==
    /\ sup_pc = "poll"
    /\ ~should_start
    /\ sent >= 1
    /\ reconnect_rx = <<>>
    /\ Len(tasks) = 4
    /\ account_handles = << 3, 4 >>
    /\ is_connected
    /\ tasks[1].cancelled /\ tasks[2].cancelled

\* C6: no record on the output channel was sent by a task after the
\* supervisor had aborted it.
C6_NoRecordAfterAbort ==
    \A i \in 1..Len(tx) : ~tx[i].after_abort

-----------------------------------------------------------------------------
(* ------------------ properties of the normaliser, continued ------------ *)

\* C11: while one frame is normalised, no shortcode is looked up at the
\* server more than once, whether the lookups succeed or not.
C11_OneLookupPerShortcode ==
    \A i, j \in DOMAIN requests : requests[i] = requests[j] => i = j

\* C12: the displayed body of a record is the repost's computed body when the
\* note carries a renote; otherwise "CW: " and the CW when the note has a CW
\* that is not empty; otherwise the plain text (each cut to 100 characters).
\* cw = "spoiler" with text = "ignored" and no renote gives "CW: spoiler".
C12_BodyChoice ==
    comment.some =>
        LET note == note_body.v
            chosen == IF note.renote.some THEN comment.v.renote_info.v.orig_text
                      ELSE IF note.cw.some /\ note.cw.v # <<>>
                           THEN <<"C", "W", ":", " ">> \o note.cw.v
                      ELSE IF note.text.some THEN note.text.v
                      ELSE <<>>
        IN  /\ comment.v.text = IF Len(chosen) > 100
                                THEN SubSeq(chosen, 1, 100) \o <<".", ".", ".">>
                                ELSE chosen
            /\ (note.cw = Some(Spoiler) /\ note.text = Some(Ignored) /\ ~note.renote.some) =>
                  comment.v.text =
                      <<"C", "W", ":", " ", "s", "p", "o", "i", "l", "e", "r">>

\* The record of the note with cw = "spoiler" and text = "ignored".
C12_Witness ==
    /\ comment.some
    /\ note_body.v.cw = Some(Spoiler)
    /\ note_body.v.text = Some(Ignored)
    /\ ~note_body.v.renote.some
    /\ Len(comment.v.text) = 11

\* C20: a frame yields a record exactly when it is a text frame whose JSON has
\* body.type = "note" and a body.body that carries a renote or has a displayed
\* body that is not empty; every other frame yields nothing.
C20_RecordIffAcceptedNote ==
    msg.some =>
        LET frame == msg.v
            is_note == /\ frame.is_text
                       /\ frame.parsed.some
                       /\ frame.parsed.v.body.some
                       /\ frame.parsed.v.body.v.type = Some("note")
                       /\ frame.parsed.v.body.v.body.some
            note == frame.parsed.v.body.v.body.v
            accepted == /\ is_note
                        /\ \/ note.renote.some
                           \/ note.cw.some /\ note.cw.v # <<>>
                           \/ note.text.some /\ note.text.v # <<>>
        IN  /\ comment.some <=> accepted
            /\ ~is_note => requests = <<>>

\* A note without text that carries a renote without text was accepted with an
\* empty body.
C20_Witness ==
    /\ msg.some
    /\ note_body.some
    /\ ~note_body.v.text.some /\ ~note_body.v.cw.some
    /\ note_body.v.renote.some
    /\ ~note_body.v.renote.v.text.some /\ ~note_body.v.renote.v.cw.some
    /\ comment.some
    /\ comment.v.text = <<>>

-----------------------------------------------------------------------------
(* ------------------ properties of the account loop, continued ---------- *)

\* C14: the records of one task are on the output channel in the order in which
\* their frames arrived: a frame is taken from the stream only while no frame
\* is in work, and the record sent is the one of the frame received last, also
\* when the earlier frame awaited lookups and the later one did not.
C14_ReceiveOrder ==
    /\ [](\A i, j \in 1..Len(tx) :
             (i < j /\ tx[i].task = tx[j].task) => tx[i].frame < tx[j].frame)
    /\ [][\A t \in DOMAIN tasks :
             /\ (tasks'[t].received # tasks[t].received /\ tasks'[t].pc # "aborted") =>
                   /\ tasks[t].pc = "read"
                   /\ tasks'[t].received = tasks[t].received + 1
             /\ (Len(tx') > Len(tx) /\ tx'[Len(tx')].task = t) =>
                   /\ tasks[t].pc = "emit"
                   /\ tx'[Len(tx')].frame = tasks[t].received]_vars

\* Two records of one task wait in the channel; the first frame awaited
\* lookups, the second did not.
C14_Witness ==
    /\ Len(tx) = 2
    /\ tx[1].task = tx[2].task
    /\ tx[1].frame = 1 /\ tx[2].frame = 2
    /\ tx[1].lookups /\ ~tx[2].lookups

-----------------------------------------------------------------------------
(* ------------------ properties of the supervisor, continued ------------ *)

C18_IdleWithoutAccounts ==
    /\ []((sup_pc \in {"sleep", "poll"} /\ ~should_start
              /\ \A i \in DOMAIN current_config : ~current_config[i].enabled) =>
             /\ account_handles = <<>>
             /\ ~is_connected
             /\ \A t \in DOMAIN tasks : tasks[t].cancelled)
    /\ []((sup_pc = "sleep"
              /\ \E i \in DOMAIN current_config : current_config[i].enabled) =>
             /\ account_handles # <<>>
             /\ \A t \in Range(account_handles) : ~tasks[t].cancelled)
    /\ [][sup_pc' = "poll" => sup_pc \in {"sleep", "poll"}]_vars

\* Started without an enabled account, the supervisor has spawned its first two
\* loops for the configuration it was sent.
C18_Witness ==
    /\ sent = 1
    /\ reconnect_rx = <<>>
    /\ sup_pc = "sleep"
    /\ Len(tasks) = 2
    /\ account_handles = << 1, 2 >>
    /\ is_connected

-----------------------------------------------------------------------------
(* ------------------ properties of the read loop ------------------------ *)

\* C21: a frame without a note is dropped: no record is sent for it and the
\* loop is at next_message again with the same client and the same failure
\* count; the read loop is left for a new connect only by an error or the end
\* of the stream.
C21_FrameDropped ==
    [][\A t \in DOMAIN tasks :
          /\ tasks'[t].dropped = tasks[t].dropped + 1 =>
                /\ tasks[t].pc = "read" /\ tasks'[t].pc = "read"
                /\ tasks'[t].client = tasks[t].client
                /\ tasks'[t].consecutive_failures = tasks[t].consecutive_failures
                /\ clients' = clients
                /\ tx' = tx
          /\ (tasks[t].pc = "read" /\ tasks'[t].pc \notin {"read", "lookup", "emit", "aborted"}) =>
                /\ tasks'[t].pc = "connect"
                /\ tasks'[t].dropped = tasks[t].dropped
                /\ tasks'[t].client = 0]_vars

\* After a dropped frame the loop has taken the next frame from the same
\* client and sent its record.
C21_Witness ==
    \E t \in DOMAIN tasks :
        /\ tasks[t].dropped = 1
        /\ tasks[t].received = 2
        /\ tasks[t].pc = "read"
        /\ tasks[t].client = 1
        /\ clients[1].held
        /\ Len(tx) = 1 /\ tx[1].frame = 2

-----------------------------------------------------------------------------
(* ------------------ properties of the link preview --------------------- *)

\* C22: a note whose displayed body holds an url yields its record however the
\* fetch of the preview ends; the record carries a preview exactly when the
\* fetch gave one.
C22_PreviewNeverSuppresses ==
    (note_body.some /\ detect_url(text_content(note_body.v)).some) =>
        /\ comment.some
        /\ comment.v.url_preview.some <=> ogp = "ok"
        /\ comment.v.url_preview.some =>
              comment.v.url_preview.v.url = detect_url(text_content(note_body.v)).v

\* The request for the second url of the text failed; the record was sent
\* without a preview.
C22_Witness ==
    /\ comment.some
    /\ ogp = "send_err"
    /\ ~note_body.v.renote.some /\ ~note_body.v.cw.some
    /\ detect_url(note_body.v.text.v) = Some(Http \o <<"x">>)
    /\ comment.v.url_preview = None

-----------------------------------------------------------------------------
(* ------------------ properties of the repost body ---------------------- *)

\* C23: the repost body is "CW: " and the CW of the embedded note when that CW
\* is present and not empty, else its text, else ""; cut to its first 80
\* characters and "..." when it is longer. It is what the provenance holds,
\* and the displayed body is this value put through the cut at 100.
C23_RepostBody ==
    (comment.some /\ note_body.v.renote.some) =>
        LET renote == note_body.v.renote.v
            raw == IF renote.cw.some /\ renote.cw.v # <<>>
                   THEN <<"C", "W", ":", " ">> \o renote.cw.v
                   ELSE IF renote.text.some THEN renote.text.v ELSE <<>>
            body == IF Len(raw) > 80 THEN SubSeq(raw, 1, 80) \o <<".", ".", ".">> ELSE raw
        IN  /\ comment.v.renote_info.some
            /\ comment.v.renote_info.v.orig_text = body
            /\ comment.v.text = IF Len(body) > 100
                                THEN SubSeq(body, 1, 100) \o <<".", ".", ".">>
                                ELSE body

\* A renote whose CW has 77 characters: with the prefix it has 81 and is cut
\* to 80 and "..."; the renote's text and the note's own text are not used.
C23_Witness ==
    /\ comment.some
    /\ note_body.v.renote.some
    /\ note_body.v.text.some /\ note_body.v.text.v # <<>>
    /\ note_body.v.renote.v.text.some
    /\ note_body.v.renote.v.cw = Some(Str(Narrow, RenoteLimit - 3))
    /\ comment.v.renote_info.v.orig_text =
           CwPrefix \o SubSeq(Str(Narrow, RenoteLimit - 3), 1, RenoteLimit - 4) \o Ellipsis
    /\ comment.v.text = comment.v.renote_info.v.orig_text

-----------------------------------------------------------------------------
(* ------------------ properties of the emoji references ----------------- *)

\* C24: the emoji references of a record hold no name twice, and the entry of
\* a name comes from the first of its sources in this order: the note's emoji
\* map, a lookup for a shortcode of the note, the renote's emoji map, a lookup
\* for a shortcode of the renote.
C24_FirstSourceWins ==
    comment.some =>
        LET note == note_body.v
            em == comment.v.emojis
            in_map(obj, n) == obj.emojis.some /\ \E k \in DOMAIN obj.emojis.v : obj.emojis.v[k] = n
            captured(str, n) == \E k \in DOMAIN captures_iter(str) : captures_iter(str)[k] = n
            first_source(n) ==
                IF in_map(note, n) THEN "note"
                ELSE IF captured(all_text(note), n) /\ n \in emoji_api THEN "api"
                ELSE IF note.renote.some /\ in_map(note.renote.v, n) THEN "renote"
                ELSE "renote_api"
        IN  /\ \A i, j \in DOMAIN em : em[i].name = em[j].name => i = j
            /\ \A i \in DOMAIN em : em[i].url = first_source(em[i].name)

\* The name a is in the renote's emoji map and is a shortcode of the note that
\* the server resolves: the record holds one entry for it, from the lookup.
C24_Witness ==
    /\ comment.some
    /\ ~note_body.v.emojis.some
    /\ note_body.v.text = Some(ShortA)
    /\ note_body.v.renote.some
    /\ note_body.v.renote.v.emojis = Some(<< <<"a">> >>)
    /\ note_body.v.renote.v.text = Some(ShortA)
    /\ <<"a">> \in emoji_api
    /\ comment.v.emojis = << EmojiInfo(<<"a">>, "api") >>

\* C25: no lookup is made for a name of the note's emoji map; none is made
\* again for a name that a lookup has resolved; and none is made for a
\* shortcode of the renote whose name is in the renote's emoji map.
C25_NoLookupOfResolved ==
    note_body.some =>
        LET note == note_body.v
            in_map(obj, n) == obj.emojis.some /\ \E k \in DOMAIN obj.emojis.v : obj.emojis.v[k] = n
            count(seq, n) == Cardinality({ k \in DOMAIN seq : seq[k] = n })
        IN  /\ \A i \in DOMAIN requests : ~in_map(note, requests[i])
            /\ \A i, j \in DOMAIN requests :
                  (i < j /\ requests[i] = requests[j]) => requests[i] \notin emoji_api
            /\ \A i \in DOMAIN requests :
                  (note.renote.some /\ in_map(note.renote.v, requests[i])) =>
                      count(requests, requests[i]) <=
                          count(captures_iter(all_text(note)), requests[i])

\* The text holds the shortcode a twice and the server resolves it: one lookup.
C25_Witness ==
    /\ note_body.some
    /\ note_body.v.text = Some(ShortA \o <<" ">> \o ShortA)
    /\ ~note_body.v.emojis.some
    /\ ~note_body.v.renote.some
    /\ <<"a">> \in emoji_api
    /\ requests = << <<"a">> >>
    /\ comment.v.emojis = << EmojiInfo(<<"a">>, "api") >>

-----------------------------------------------------------------------------
(* ------------------ properties of the decode dispatch ------------------ *)

\* C26: process_downloads decodes a completion by the extension first and the
\* signature second. For an url that ends in ".gif" only the GIF decoder is
\* used: frames give an animated entry, a decoder error a negative entry, also
\* for bytes another decoder would accept. For any other url, bytes with the
\* PNG signature that are an APNG give an animated entry and otherwise go to
\* the static decoder, as do bytes without the signature; the static decoder
\* gives a texture or, on an error, a negative entry.
C26_DecodeDispatch ==
    [][(rx # <<>> /\ rx' = <<>>) =>
         \A i \in DOMAIN rx :
             LET url == rx[i][1]
                 bytes == rx[i][2]
                 negative == /\ url \in DOMAIN static_cache' /\ static_cache'[url] = "None"
                             /\ url \notin DOMAIN animated_cache'
                 texture == /\ url \in DOMAIN static_cache' /\ static_cache'[url] = "Some"
                            /\ url \notin DOMAIN animated_cache'
                 animated == /\ url \in DOMAIN animated_cache'
                             /\ animated_cache'[url].textures = Len(bytes.delays)
                             /\ url \notin DOMAIN static_cache'
             IN  IF bytes.kind = "empty" THEN negative
                 ELSE IF url.ext = ".gif"
                 THEN IF bytes.kind # "gif" THEN negative
                      ELSE bytes.delays # <<>> => animated
                 ELSE IF bytes.kind = "apng" THEN animated
                 ELSE IF bytes.kind \in {"png", "badpng"}
                 THEN IF bytes.kind = "png" THEN texture ELSE negative
                 ELSE IF bytes.kind \in {"gif", "image"} THEN texture ELSE negative]_vars

\* One drain took an APNG stream for the url that ends in ".gif", which left a
\* negative entry, and a static PNG for the other url, which left a texture
\* after the APNG decoder had refused it.
C26_Witness ==
    /\ \E i \in DOMAIN last_drain :
          /\ last_drain[i][1].ext = ".gif"
          /\ last_drain[i][2].kind = "apng"
          /\ last_drain[i][1] \in DOMAIN static_cache
          /\ static_cache[last_drain[i][1]] = "None"
    /\ \E i \in DOMAIN last_drain :
          /\ last_drain[i][1].ext = ".png"
          /\ last_drain[i][2].kind = "png"
          /\ last_drain[i][1] \in DOMAIN static_cache
          /\ static_cache[last_drain[i][1]] = "Some"

-----------------------------------------------------------------------------
(* ------------------ properties of the cache, continued ----------------- *)

\* C27: an url is never in both caches, and an entry stays: an url of the
\* static cache keeps its entry, negative or decoded, and does not come into the
\* animated cache; an url of the animated cache keeps its frames and textures
\* (only the cursor and the accumulator move) and does not come into the static cache.
C27_EntriesAreTerminal ==
    /\ [](DOMAIN static_cache \cap DOMAIN animated_cache = {})
    /\ [][/\ \A u \in DOMAIN static_cache :
                /\ u \in DOMAIN static_cache'
                /\ static_cache'[u] = static_cache[u]
                /\ u \notin DOMAIN animated_cache'
          /\ \A u \in DOMAIN animated_cache :
                /\ u \in DOMAIN animated_cache'
                /\ animated_cache'[u].frame_durations = animated_cache[u].frame_durations
                /\ animated_cache'[u].textures = animated_cache[u].textures
                /\ u \notin DOMAIN static_cache']_vars

\* With a negative entry for one url and an animated entry for the other in
\* place, the animations were advanced, and a call for the first url returned
\* nothing and started no download.
C27_Witness ==
    /\ ticks = MaxTicks
    /\ last_ret.url \in DOMAIN static_cache
    /\ static_cache[last_ret.url] = "None"
    /\ ~last_ret.spawn
    /\ \E u \in DOMAIN animated_cache : animated_cache[u].current_frame >= 1

-----------------------------------------------------------------------------
(* ------------------ properties of the client's tasks ------------------- *)

\* C28: the outbound queue of a client changes only by a message put at its
\* end, by the writer taking the message at its head, or by the writer ending,
\* which drops what is left; so the messages are written in the order in which
\* they were put. The subscribe frame is put before every ping. subscribe
\* returns Ok with its frame still in the queue, and returns an error only
\* when the writer task is gone.
C28_OutboundOrder ==
    /\ [](\A c \in DOMAIN clients :
             \A i \in DOMAIN clients[c].queue : i > 1 => clients[c].queue[i] = "h")
    /\ [][/\ \A c \in DOMAIN clients :
                LET q == clients[c].queue
                    r == clients'[c].queue
                IN  \/ r = q
                    \/ \E m \in {"connect", "h"} : r = Append(q, m)
                    \/ q # <<>> /\ r = Tail(q) /\ clients[c].writer
                    \/ r = <<>> /\ ~clients'[c].writer
          /\ \A t \in DOMAIN tasks :
                /\ (tasks[t].pc = "subscribe" /\ tasks'[t].pc = "read") =>
                      clients'[tasks[t].client].queue =
                          Append(clients[tasks[t].client].queue, "connect")
                /\ (tasks[t].pc = "subscribe" /\ tasks'[t].pc = "sub_sleep") =>
                      ~clients[tasks[t].client].writer]_vars

\* subscribe has returned and the loop reads, a ping was put behind the
\* subscribe frame, and the writer has written neither.
C28_Witness ==
    \E t \in DOMAIN tasks :
        /\ tasks[t].pc = "read"
        /\ tasks[t].client # 0
        /\ clients[tasks[t].client].writer
        /\ clients[tasks[t].client].queue = <<"connect", "h">>

\* C29: the heartbeat task puts only the ping "h", one at each of its turns,
\* and goes on as long as the writer task lives; it ends when its send fails,
\* which is when the writer task is gone, and the writer task ends on a failed
\* write; neither end changes anything an account loop or the consumer sees.
C29_Keepalive ==
    [][\A c \in DOMAIN clients :
          /\ (clients[c].keepalive /\ clients'[c].queue # clients[c].queue /\ tasks' = tasks
                  /\ Len(clients'[c].queue) > Len(clients[c].queue)) =>
                clients'[c].queue = Append(clients[c].queue, "h")
          /\ (clients[c].keepalive /\ clients[c].writer /\ clients'[c].writer) =>
                clients'[c].keepalive
          /\ (clients[c].keepalive /\ ~clients'[c].keepalive) =>
                /\ ~clients'[c].writer
                /\ tasks' = tasks /\ tx' = tx /\ is_connected' = is_connected
          /\ (clients[c].writer /\ ~clients'[c].writer) =>
                /\ tasks' = tasks /\ tx' = tx /\ is_connected' = is_connected]_vars

\* A write failed and the writer task ended, the next ping failed and the
\* heartbeat task ended, and the account loop still reads from this client.
C29_Witness ==
    \E t \in DOMAIN tasks :
        /\ tasks[t].pc = "read"
        /\ tasks[t].client # 0
        /\ clients[tasks[t].client].held
        /\ ~clients[tasks[t].client].writer
        /\ ~clients[tasks[t].client].keepalive

-----------------------------------------------------------------------------
(* ------------------ properties of the backoff delay -------------------- *)

\* C30: after every connect failure, whatever the count of consecutive
\* failures, the task sleeps between 1 and 5 seconds: the power neither
\* panics nor wraps to a delay of 0.
C30_DelayInRange ==
    \A t \in DOMAIN tasks :
        /\ tasks[t].pc # "panicked"
        /\ tasks[t].pc = "backoff" =>
              (tasks[t].slept >= 1 /\ tasks[t].slept <= BackoffCap)

-----------------------------------------------------------------------------
(* ----------------- the caches after a completion is drained ------------- *)

\* C31: every url whose completion the last call of process_downloads drained
\* is a key of the animated cache or of the static cache (entries are never
\* removed, so a url that was stored by the drain is still stored).
C31_DrainedIsCached ==
    \A i \in DOMAIN last_drain :
        last_drain[i][1] \in DOMAIN animated_cache \cup DOMAIN static_cache

\* Completions of url that wait in the channel.
Pending(url) == { i \in DOMAIN rx : rx[i][1] = url }

\* C32: a url marked downloading has exactly one of a running download thread
\* and a completion waiting in the channel, a url not marked has neither; and
\* with the threads running to their end and process_downloads called again
\* and again, every url marked downloading leaves the downloading map.
C32_OneCompletion ==
    /\ [](\A url \in Urls :
            threads[url] + Cardinality(Pending(url))
                = IF url \in DOMAIN downloading THEN 1 ELSE 0)
    /\ \A url \in Urls :
            (url \in DOMAIN downloading) ~> (url \notin DOMAIN downloading)

\* A failed download was drained and its url is no longer marked downloading.
C32_Witness ==
    \E i \in DOMAIN last_drain :
        /\ last_drain[i][2] = EmptyBytes
        /\ last_drain[i][1] \notin DOMAIN downloading
        /\ threads[last_drain[i][1]] = 0

\* C35: the key sets of downloading, static_cache and animated_cache are
\* pairwise disjoint in every state.
C35_KeysDisjoint ==
    /\ DOMAIN downloading \cap DOMAIN static_cache = {}
    /\ DOMAIN downloading \cap DOMAIN animated_cache = {}
    /\ DOMAIN static_cache \cap DOMAIN animated_cache = {}

\* After a drain one url is cached and is neither marked nor in the other
\* cache, while the other url is marked downloading.
C35_Witness ==
    /\ last_drain # <<>>
    /\ \E u \in DOMAIN animated_cache \cup DOMAIN static_cache :
           u \in Drained(last_drain)
    /\ DOMAIN downloading # {}

\* C36: after every call of update_animations the accumulator of every
\* animated entry is smaller than the duration of the entry's current frame.
C36_AccumulatorBelowDuration ==
    [][ticks' = ticks + 1 =>
          \A u \in DOMAIN animated_cache' :
              LET anim == animated_cache'[u]
              IN  anim.elapsed_ms < anim.frame_durations[anim.current_frame + 1]]_vars

\* C37: every animated entry has at least one texture, as many durations as
\* textures and a cursor below the number of textures; the index load_emoji
\* used for an animated url is an index of the entry's textures.
C37_CursorInRange ==
    /\ \A u \in DOMAIN animated_cache :
           LET anim == animated_cache[u]
           IN  /\ anim.textures >= 1
               /\ Len(anim.frame_durations) = anim.textures
               /\ anim.current_frame \in 0..(anim.textures - 1)
    /\ last_ret.frame # NoFrame =>
           /\ last_ret.url \in DOMAIN animated_cache
           /\ last_ret.frame \in 0..(animated_cache[last_ret.url].textures - 1)

\* The entry of the GIF with delays 100 ms and 0 ms after update_animations(260)
\* and update_animations(16): the cursor went to 1 and wrapped to 0, and
\* load_emoji indexed the entry after it.
C37_Witness ==
    /\ ticks = 2
    /\ last_ret.frame = 0
    /\ last_ret.url \in DOMAIN animated_cache
    /\ animated_cache[last_ret.url].frame_durations = <<100, 0>>
    /\ animated_cache[last_ret.url].current_frame = 0
    /\ animated_cache[last_ret.url].elapsed_ms = 176

-----------------------------------------------------------------------------
(* ------------------- tasks left behind by dropped clients --------------- *)

\* The account loops that run: spawned and neither dropped by an abort nor
\* ended by a panic.
LiveLoops == { t \in DOMAIN tasks : tasks[t].pc \notin {"aborted", "panicked"} }

\* The writer tasks that go on: rx.recv() has a message to yield or a sender
\* that can still send one (a writer whose queue is empty and closed is ending).
LiveWriters ==
    { c \in DOMAIN clients :
        clients[c].writer /\ (clients[c].queue # <<>> \/ senders(clients[c]) > 0) }

\* The heartbeat tasks that go on: the next send finds the receiver.
LiveKeepalives == { c \in DOMAIN clients : clients[c].keepalive /\ clients[c].writer }

\* C33: there are never more writer tasks going on than account loops, nor
\* more heartbeat tasks.
C33_TasksWithinLoops ==
    /\ Cardinality(LiveWriters) <= Cardinality(LiveLoops)
    /\ Cardinality(LiveKeepalives) <= Cardinality(LiveLoops)

-----------------------------------------------------------------------------
(* --------------------- queued reconfigurations ------------------------- *)

\* The configurations sent so far, in the order of their send.
SentConfigs == [i \in DOMAIN reconnect_tx |-> reconnect_tx[i].config]

\* The number of configurations the supervisor has taken from the channel.
Consumed == Len(reconnect_tx) - Len(reconnect_rx)

\* The handles of the generation spawned last: the newest task ids, in order.
NewestGeneration(n) == [i \in 1..n |-> Len(tasks) - n + i]

-----------------------------------------------------------------------------
(* --------------------- properties of the settings flow ------------------ *)

\* C38: an account that holds a token obtained by a MiAuth session has the
\* host that session was opened at.
C38_TokenOnItsHost ==
    \A i \in DOMAIN config_accounts :
        LET a == config_accounts[i]
        IN  (a.token.some /\ a.token.v.kind = "miauth") => a.host = a.token.v.host

-----------------------------------------------------------------------------
(* --------------------- properties of the token fields ------------------- *)

\* C39: the token an account holds comes back from deobfuscate_token after
\* obfuscate_token; prepare_for_save leaves the token, stores its obfuscation
\* ("abc" gives "LAsQ") and clears the raw token; restore_token right after
\* prepare_for_save leaves the account with the token it had before the two
\* calls; restore_token takes the obfuscated token when there is one, whatever
\* the raw token, which it leaves (text that does not decode gives no token),
\* else moves the raw token into the token, else changes nothing.
C39_TokenRoundTrip ==
    LET n == Len(token_op)
    IN  /\ account.token.some =>
               deobfuscate_token(obfuscate_token(account.token.v)) = account.token
        /\ (n >= 1 /\ token_op[n].op = "prepare_for_save") =>
               LET b == token_op[n].before
               IN  /\ account.token = b.token
                   /\ account.token_raw = None
                   /\ account.token_obfuscated.some = b.token.some
                   /\ b.token = Some(Abc) => account.token_obfuscated = Some(<<11, 0, 44, 16>>)
        /\ (n = 2 /\ token_op[1].op = "prepare_for_save" /\ token_op[2].op = "restore_token") =>
               account.token = token_op[1].before.token
        /\ (n >= 1 /\ token_op[n].op = "restore_token") =>
               LET b == token_op[n].before
               IN  IF b.token_obfuscated.some
                   THEN /\ account.token = deobfuscate_token(b.token_obfuscated.v)
                        /\ account.token_raw = b.token_raw
                        /\ account.token_obfuscated = b.token_obfuscated
                        /\ b.token_obfuscated.v \in BrokenTexts => account.token = None
                        /\ b.token_obfuscated.v = <<11, 0, 44, 16>> => account.token = Some(Abc)
                   ELSE IF b.token_raw.some
                   THEN /\ account.token = b.token_raw
                        /\ account.token_raw = None
                        /\ account.token_obfuscated = None
                   ELSE account = b

\* An account loaded with the raw token "abc" and the obfuscation of the 22
\* letters got the 22 letters from restore_token, and has them again after
\* prepare_for_save and restore_token.
C39_Witness ==
    /\ Len(token_op) = 2
    /\ token_op[1].op = "prepare_for_save"
    /\ token_op[1].before.token = Some(Letters22)
    /\ token_op[1].before.token_raw = Some(Abc)
    /\ token_op[2].op = "restore_token"
    /\ account.token = Some(Letters22)
    /\ account.token_raw = None

====
